---- MODULE Spec2Model ----
(***************************************************************************)
(* Model of the metemcyber client core:                                    *)
(*   - plugins/standalone_solver.py: LocalHttpServer (background port scan *)
(*     and HTTP server thread) and Solver.process_challenge (the           *)
(*     accept -> url -> webhook -> finish task handler);                   *)
(*   - client_model.py: the registered-token registry                     *)
(*     (save_registered_token / fetch_registered_token), dissemination,    *)
(*     receive_challenge_answer, the token watches, the addresses of the   *)
(*     configuration, accept_challenges, fetch_trusted_users;              *)
(*   - ctitoken.py and deploy_erc1820: the state-changing ledger calls.    *)
(* The specifications share one set of variables: SolverSpec,              *)
(* RegistrySpec, DissemSpec, AnswerSpec, WatchSpec, LedgerSpec,            *)
(* ConfigSpec; FaultSpec (the registry with writes that stop part-way),    *)
(* ReadErrorSpec (with reads that fail), ConcurSpec (two threads           *)
(* disseminating), ChallengeSpec (the handler beside accept_challenges),   *)
(* TrustSpec (the trusted-users file) and RestartSpec (start called again  *)
(* on one LocalHttpServer); each action leaves the other parts unchanged.  *)
(***************************************************************************)
EXTENDS Integers, Sequences, FiniteSets, TLC

VARIABLES
    \* ---- environment of the file server
    portState,      \* [Ports -> {"free","inuse","denied"}]: what bind() meets
    \* ---- LocalHttpServer object (standalone_solver.py:53-59)
    fs_thread,      \* self.thread is set
    fs_server,      \* self.server is set
    fs_port,        \* self.port
    \* ---- the background thread running LocalHttpServer.run
    tpc,            \* position of the thread in run()
    idx,            \* next value of the range() iterator of the for loop
    boundPort,      \* port the TCPServer socket listens on, 0 when none
    shutdownReq,    \* socketserver's __shutdown_request
    \* ---- Solver object and its owner (foreground thread)
    mainPc,         \* position of the owner: construct / run / destroy steps
    fileserver,     \* Solver.fileserver is not None
    startResult,    \* what the caller of start() observed: "none","ok","error"
    \* ---- event dispatch thread running Solver.process_challenge
    dpc,            \* position inside process_challenge
    cur,            \* the event being handled
    data,           \* local variable data
    download_url,   \* local variable download_url
    log,            \* steps taken while handling the current event
    nEvents,        \* number of events delivered so far
    accepted,       \* BaseSolver: task ids accepted by this instance
    acceptTxs,      \* per task: results of the accept transactions submitted
    \* ---- registered-token registry (client_model.py)
    file,           \* REGISTERED_TOKEN_TSV: [exists, rows], rows of fields
    rpc,            \* position inside save_registered_token
    md,             \* cti_metadata being saved
    is_empty,       \* local variable is_empty
    recorded,       \* uuids whose save_registered_token returned
    fetched,        \* the last fetch_registered_token: [done, rows]
    fetchedAfter,   \* the uuids recorded before the last fetch
    fetchedPrev,    \* what the fetch before the last returned
    fetchDirty,     \* the file was written since the last fetch
    fetchQuiet,     \* no write came between the last two fetches
    fetchedMissing, \* the file did not exist at the last fetch
    fetchedErr,     \* the last fetch met a read error
    tornTail,       \* the last line of the file lacks its line end
    sv_file,        \* the file when the last save began
    sv_md,          \* the metadata of the last save
    sv_raised,      \* the last save raised an error to its caller
    cr_inSave,      \* the last crash hit a save, and none began since
    nTorn,          \* writes that stopped part-way
    nSaves,         \* number of save calls started
    run,            \* process run number (crash/restart count)
    \* ---- dissemination (client_model.py: disseminate_*)
    ds_pc,          \* position inside the dissemination call
    ds_entry,       \* entry point of the call in progress
    ds_meta,        \* cti_metadata of the uuid being disseminated
    ds_snapshot,    \* registered_uuid of disseminate_token_from_mispdata
    ds_todo,        \* uuids the glob loop has still to visit
    ds_created,     \* token addresses created on the ledger
    links,          \* serving links: token address -> uuid of the target
    mispFiles,      \* uuids that have a file under MISP_DATAFILE_PATH
    ds_txs,         \* ledger transactions submitted for the current uuid
    ds_symlinks,    \* os.symlink attempts made for the current uuid
    ds_wasRegistered, \* the current uuid was in the registry at the start
    ds_linkBefore,  \* links[token] when create_asset_content was entered
    ds_fileBefore,  \* the registry file when the dissemination was entered
    ds_error,       \* the step whose exception ended the call, or "none"
    nDissems,       \* number of uuids handed to a dissemination entry point
    \* --- receive_challenge_answer
    an_pc,          \* position in receive_challenge_answer
    an_data,        \* the payload of the call
    an_msg,         \* the parts of msg, in the order they were added
    an_result,      \* [done, ok, raised]: how the last call ended
    an_dlFailed,    \* urlopen raised in the last call
    an_urlFailed,   \* writing the .url file raised in the last call
    an_downloads,   \* urlopen calls of the last call
    urlFiles,       \* token address -> content of <token>.url, or None
    jsonFiles,      \* token address -> content of <token>.json, or None
    nAnswers,       \* calls of receive_challenge_answer
    \* --- watch_token_start / watch_token_stop and the event listener
    subs,           \* key -> the callback registered under it, or None
    w_pending,      \* keys whose removal waits for the callback to return
    w_pc,           \* position of the dispatch loop
    w_event,        \* token address of the event being dispatched
    w_loopAlive,    \* the dispatch loop runs
    w_stopped,      \* token -> its callback has called watch_token_stop
    w_callsAfterStop, \* callback invocations after its watch_token_stop
    w_missed,       \* token -> events that found the subscription gone
    w_startError,   \* the last watch_token_start raised a duplicate key
    w_rewatched,    \* tokens watched again after their watch was stopped
    nWatchEvents,   \* Sent events delivered
    nWatches,       \* watch_token_start calls
    \* --- state-changing ledger calls and the inventory's balance cache
    lg_pc,          \* position in the call
    lg_op,          \* the operation called
    lg_token,       \* the token the call is about
    lg_stage,       \* which transaction of deploy_erc1820 is under way
    lg_status,      \* tx_receipt['status'] of the last receipt
    lg_failed,      \* some receipt of this call had status != 1
    lg_changed,     \* this call has changed the local account's balance
    lg_txs,         \* transactions this call has submitted
    lg_result,      \* [done, ok, raised]: how the call ended
    ledgerBal,      \* token -> balance of the local account on the ledger
    cacheBal,       \* token -> balance cached by the inventory
    nCalls,         \* ledger calls made
    \* --- the addresses Player.__init__ takes from the configuration
    cf_pc,          \* position in Player.__init__
    cf_raw,         \* the configuration entries read last, as written
    inv_broker,     \* broker_address given to Inventory
    inv_calls,      \* the catalog_ctrl calls: [ops, addresses]
    operator_address, \* self.operator_address
    plugin_given,   \* operator addresses given to plugin.set_solverclass
    solver_given,   \* operator address given to SolverWrapper
    \* --- a dissemination on the event dispatch thread
    dt_pc,          \* position of the dispatch thread's dissemination
    dt_md,          \* its cti_metadata
    dt_is_empty,    \* its is_empty of save_registered_token
    nDt,            \* disseminations begun on the dispatch thread
    \* --- accept_challenges called from the foreground
    ch_wanted,      \* token addresses whose challenges the solver accepts
    fg_active,      \* tasks being processed outside the dispatch thread
    nAccepts,       \* accept_challenges calls
    \* --- fetch_trusted_users and the trusted-users file
    account_id,     \* self.account_id
    trusted_users,  \* self.trusted_users
    tu_file,        \* TRUSTED_USERS_TSV: its header and the id of each row
    tu_read,        \* the file as it was at the last fetch_trusted_users
    tu_prev,        \* trusted_users before the last fetch_trusted_users
    tu_outcome,     \* how the last fetch_trusted_users ended
    tu_edited,      \* the file was edited by hand since the last fetch
    nTuFetches,     \* fetch_trusted_users calls
    nTuEdits,       \* edits of the file
    \* --- a second start() of the same LocalHttpServer
    t2pc,           \* position of the second thread in run()
    t2idx,          \* next value of its range() iterator
    t2bound,        \* port its TCPServer socket listens on, 0 when none
    nStarts         \* further start() calls

solverVars == <<portState, fs_thread, fs_server, fs_port, tpc, idx, boundPort,
                shutdownReq, mainPc, fileserver, startResult, dpc, cur, data,
                download_url, log, nEvents, accepted, acceptTxs>>
fetchVars == <<fetchedPrev, fetchDirty, fetchQuiet, fetchedMissing, fetchedErr>>
saveVars == <<tornTail, sv_file, sv_md, sv_raised, cr_inSave, nTorn>>
registryVars == <<file, rpc, md, is_empty, recorded, fetched, fetchedAfter,
                  nSaves, run, fetchVars, saveVars>>
dissemVars == <<ds_pc, ds_entry, ds_meta, ds_snapshot, ds_todo, ds_created,
                links, mispFiles, ds_txs, ds_symlinks, ds_wasRegistered,
                ds_linkBefore, ds_fileBefore, ds_error, nDissems>>
answerVars == <<an_pc, an_data, an_msg, an_result, an_dlFailed, an_urlFailed,
                an_downloads, urlFiles, jsonFiles, nAnswers>>
watchVars == <<subs, w_pending, w_pc, w_event, w_loopAlive, w_stopped,
               w_callsAfterStop, w_missed, w_startError, w_rewatched, nWatchEvents,
               nWatches>>
ledgerVars == <<lg_pc, lg_op, lg_token, lg_stage, lg_status, lg_failed,
                lg_changed, lg_txs, lg_result, ledgerBal, cacheBal, nCalls>>
configVars == <<cf_pc, cf_raw, inv_broker, inv_calls, operator_address,
                plugin_given, solver_given>>
dtVars == <<dt_pc, dt_md, dt_is_empty, nDt>>
fgVars == <<ch_wanted, fg_active, nAccepts>>
tuVars == <<account_id, trusted_users, tu_file, tu_read, tu_prev, tu_outcome,
           tu_edited, nTuFetches, nTuEdits>>
rsVars == <<t2pc, t2idx, t2bound, nStarts>>
playerVars == <<dissemVars, answerVars, watchVars, ledgerVars, configVars, dtVars, fgVars,
                 tuVars, rsVars>>
\* what the dissemination leaves alone, beside the solver
besideDissem == <<answerVars, watchVars, ledgerVars, configVars, dtVars, fgVars, tuVars,
                   rsVars>>
\* what receive_challenge_answer leaves alone
besideAnswer == <<solverVars, registryVars, dissemVars, watchVars, ledgerVars, configVars,
                   dtVars, fgVars, tuVars, rsVars>>
\* what the token watches leave alone
besideWatch == <<solverVars, registryVars, dissemVars, answerVars, ledgerVars, configVars,
                  dtVars, fgVars, tuVars, rsVars>>
\* what the configuration steps of Player.__init__ leave alone
besideConfig == <<solverVars, registryVars, dissemVars, answerVars, watchVars,
                  ledgerVars, dtVars, fgVars, tuVars, rsVars>>
\* what a dissemination on the dispatch thread leaves alone, beside the
\* registry
besideDt == <<solverVars, dissemVars, answerVars, watchVars, ledgerVars,
             configVars, fgVars, tuVars, rsVars>>
\* what a second start and its thread leave alone, beside the solver
besideRs == <<registryVars, dissemVars, answerVars, watchVars, ledgerVars,
             configVars, dtVars, fgVars, tuVars>>
\* what fetch_trusted_users leaves alone
besideTu == <<solverVars, registryVars, dissemVars, answerVars, watchVars,
             ledgerVars, configVars, dtVars, fgVars, rsVars>>
\* what accept_challenges leaves alone
besideFg == <<solverVars, registryVars, dissemVars, answerVars, watchVars,
             ledgerVars, configVars, dtVars, tuVars, rsVars>>
\* what the ledger calls leave alone
besideLedger == <<solverVars, registryVars, dissemVars, answerVars, watchVars, configVars,
                   dtVars, fgVars, tuVars, rsVars>>
vars == <<solverVars, registryVars, playerVars>>

----------------------------------------------------------------------------
\* Bounds of the model
MaxPortRange == 2       \* LISTEN_PORT_RANGE scaled down from 1000
MaxTasks == 2           \* task ids 1..MaxTasks
MaxEvents == 2          \* challenge events delivered to the solver
MaxSaves == 3           \* save_registered_token calls
MaxRuns == 2            \* process restarts
MaxDissems == 2         \* uuids handed to a dissemination entry point
MaxAnswers == 2         \* receive_challenge_answer calls
MaxWatchEvents == 3     \* Sent events delivered to the listener
MaxWatches == 3         \* watch_token_start calls
MaxCalls == 3           \* state-changing ledger calls
MaxEntries == 2         \* entries of a configured address list
MaxTorn == 1            \* writes that stop part-way
MaxAccepts == 2         \* accept_challenges calls
MaxTuFetches == 2       \* fetch_trusted_users calls
MaxTuEdits == 3         \* edits of the trusted-users file
MaxStarts == 2          \* further start() calls on the LocalHttpServer

\* Program constants
LISTEN_PORT == 50080
LISTEN_PORT_RANGE == MaxPortRange
\* range(LISTEN_PORT, LISTEN_PORT+LISTEN_PORT_RANGE+1)
Ports == LISTEN_PORT .. (LISTEN_PORT + LISTEN_PORT_RANGE)

Tasks == 1 .. MaxTasks
TokenOf(t) == IF t % 2 = 1 THEN "0xAA" ELSE "0xBB"

\* str(err) of the exception an external step raised. Python builds the text
\* from the exception's arguments, so an exception raised without arguments
\* (Exception(), MemoryError(), http.client.NotConnected()) has the text "".
ExceptionTexts == {"", "urlopen error"}

None == "None"

----------------------------------------------------------------------------
\* LocalHttpServer.run: the background thread

Listening == boundPort # 0
ThreadAlive == tpc \in {"iter", "bind", "bound", "serve_enter", "serving", "exited"}
ThreadDead == tpc \in {"done", "failed_noport", "failed_oserror"}

\* the scan with the range one port short: range(LISTEN_PORT,
\* LISTEN_PORT+LISTEN_PORT_RANGE)
RunNextPort_shortRange ==
    /\ tpc = "iter"
    /\ IF idx \in Ports \ {LISTEN_PORT + LISTEN_PORT_RANGE}
       THEN /\ fs_port' = idx
            /\ idx' = idx + 1
            /\ tpc' = "bind"
       ELSE /\ tpc' = "failed_noport"
            /\ UNCHANGED <<fs_port, idx>>
    /\ UNCHANGED <<portState, fs_thread, fs_server, boundPort, shutdownReq,
                   mainPc, fileserver, startResult, dpc, cur, data,
                   download_url, log, nEvents, accepted, acceptTxs, registryVars, playerVars>>

\* for self.port in range(LISTEN_PORT, LISTEN_PORT+LISTEN_PORT_RANGE+1): the
\* next value is assigned to self.port; an exhausted range raises
\* Exception("cannot assign listen port for httpd") in the thread.
RunNextPort ==
    /\ tpc = "iter"
    /\ IF idx \in Ports
       THEN /\ fs_port' = idx
            /\ idx' = idx + 1
            /\ tpc' = "bind"
       ELSE /\ tpc' = "failed_noport"
            /\ UNCHANGED <<fs_port, idx>>
    /\ UNCHANGED <<portState, fs_thread, fs_server, boundPort, shutdownReq,
                   mainPc, fileserver, startResult, dpc, cur, data,
                   download_url, log, nEvents, accepted, acceptTxs, registryVars, playerVars>>

\* TCPServer((self.addr, self.port), self.handler): binds and listens, or
\* raises OSError; errno 98 continues the scan, any other errno is re-raised.
RunBind ==
    /\ tpc = "bind"
    /\ CASE portState[fs_port] = "free" ->
              /\ boundPort' = fs_port
              /\ tpc' = "bound"
         [] portState[fs_port] = "inuse" ->
              /\ tpc' = "iter"
              /\ UNCHANGED boundPort
         [] OTHER ->
              /\ tpc' = "failed_oserror"
              /\ UNCHANGED boundPort
    /\ UNCHANGED <<portState, fs_thread, fs_server, fs_port, idx, shutdownReq,
                   mainPc, fileserver, startResult, dpc, cur, data,
                   download_url, log, nEvents, accepted, acceptTxs, registryVars, playerVars>>

\* self.server = httpd
RunSetServer ==
    /\ tpc = "bound"
    /\ fs_server' = TRUE
    /\ tpc' = "serve_enter"
    /\ UNCHANGED <<portState, fs_thread, fs_port, idx, boundPort, shutdownReq,
                   mainPc, fileserver, startResult, dpc, cur, data,
                   download_url, log, nEvents, accepted, acceptTxs, registryVars, playerVars>>

\* httpd.serve_forever(): loops until a shutdown request, which it clears on
\* the way out.
RunServe ==
    /\ tpc = "serve_enter"
    /\ tpc' = "serving"
    /\ UNCHANGED <<portState, fs_thread, fs_server, fs_port, idx, boundPort,
                   shutdownReq, mainPc, fileserver, startResult, dpc, cur,
                   data, download_url, log, nEvents, accepted, acceptTxs, registryVars, playerVars>>

RunServeExit ==
    /\ tpc = "serving"
    /\ shutdownReq
    /\ shutdownReq' = FALSE
    /\ tpc' = "exited"
    /\ UNCHANGED <<portState, fs_thread, fs_server, fs_port, idx, boundPort,
                   mainPc, fileserver, startResult, dpc, cur, data,
                   download_url, log, nEvents, accepted, acceptTxs, registryVars, playerVars>>

\* leaving the with block closes the socket; run returns
RunClose ==
    /\ tpc = "exited"
    /\ boundPort' = 0
    /\ tpc' = "done"
    /\ UNCHANGED <<portState, fs_thread, fs_server, fs_port, idx, shutdownReq,
                   mainPc, fileserver, startResult, dpc, cur, data,
                   download_url, log, nEvents, accepted, acceptTxs, registryVars, playerVars>>

----------------------------------------------------------------------------
\* Solver.__init__ / LocalHttpServer.start, Solver.destroy / LocalHttpServer.stop

\* LocalHttpServer.start: returns as soon as the thread is started; nothing of
\* what run() meets is reported to the caller.
start ==
    /\ IF fs_thread
       THEN UNCHANGED <<fs_thread, tpc, idx>>
       ELSE /\ fs_thread' = TRUE
            /\ tpc' = "iter"
            /\ idx' = LISTEN_PORT
    /\ startResult' = "ok"

\* Solver.__init__: creates the LocalHttpServer and starts it
Solver_init ==
    /\ mainPc = "construct"
    /\ fileserver' = TRUE
    /\ start
    /\ mainPc' = "run"
    /\ UNCHANGED <<portState, fs_server, fs_port, boundPort, shutdownReq,
                   dpc, cur, data, download_url, log, nEvents, accepted,
                   acceptTxs, registryVars, playerVars>>

\* Solver.destroy: super().destroy() ends the event subscription, then
\* "if self.fileserver:" leads into stop()
DestroyBegin ==
    /\ mainPc = "run"
    /\ mainPc' = IF fileserver THEN "stop_check" ELSE "destroyed"
    /\ UNCHANGED <<portState, fs_thread, fs_server, fs_port, tpc, idx,
                   boundPort, shutdownReq, fileserver, startResult, dpc, cur,
                   data, download_url, log, nEvents, accepted, acceptTxs, registryVars, playerVars>>

\* stop: "if self.server: self.server.shutdown()" - shutdown() sets the
\* request flag and then waits for serve_forever to leave its loop
StopCheckServer ==
    /\ mainPc = "stop_check"
    /\ IF fs_server
       THEN /\ shutdownReq' = TRUE
            /\ mainPc' = "shutdown_wait"
       ELSE /\ mainPc' = "join_check"
            /\ UNCHANGED shutdownReq
    /\ UNCHANGED <<portState, fs_thread, fs_server, fs_port, tpc, idx,
                   boundPort, fileserver, startResult, dpc, cur, data,
                   download_url, log, nEvents, accepted, acceptTxs, registryVars, playerVars>>

\* shutdown() returns once serve_forever has exited; self.server = None
StopShutdownDone ==
    /\ mainPc = "shutdown_wait"
    /\ tpc \in {"exited", "done"}
    /\ fs_server' = FALSE
    /\ mainPc' = "join_check"
    /\ UNCHANGED <<portState, fs_thread, fs_port, tpc, idx, boundPort,
                   shutdownReq, fileserver, startResult, dpc, cur, data,
                   download_url, log, nEvents, accepted, acceptTxs, registryVars, playerVars>>

\* "if self.thread:"
StopCheckThread ==
    /\ mainPc = "join_check"
    /\ mainPc' = IF fs_thread THEN "join" ELSE "stopped"
    /\ UNCHANGED <<portState, fs_thread, fs_server, fs_port, tpc, idx,
                   boundPort, shutdownReq, fileserver, startResult, dpc, cur,
                   data, download_url, log, nEvents, accepted, acceptTxs, registryVars, playerVars>>

\* self.thread.join(timeout=JOIN_TIMEOUT_SEC) returns because the thread ended
StopJoined ==
    /\ mainPc = "join"
    /\ ThreadDead
    /\ fs_thread' = FALSE
    /\ mainPc' = "stopped"
    /\ UNCHANGED <<portState, fs_server, fs_port, tpc, idx, boundPort,
                   shutdownReq, fileserver, startResult, dpc, cur, data,
                   download_url, log, nEvents, accepted, acceptTxs, registryVars, playerVars>>

\* join returns on its timeout: the thread is still alive (the steps of the
\* scan are short, so the thread that outlives 30 s is the one that sits in
\* serve_forever with no shutdown request); the error is logged and
\* self.thread = None all the same
StopJoinTimeout ==
    /\ mainPc = "join"
    /\ tpc = "serving"
    /\ ~shutdownReq
    /\ fs_thread' = FALSE
    /\ mainPc' = "stopped"
    /\ UNCHANGED <<portState, fs_server, fs_port, tpc, idx, boundPort,
                   shutdownReq, fileserver, startResult, dpc, cur, data,
                   download_url, log, nEvents, accepted, acceptTxs, registryVars, playerVars>>

\* back in Solver.destroy: self.fileserver = None
DestroyEnd ==
    /\ mainPc = "stopped"
    /\ fileserver' = FALSE
    /\ mainPc' = "destroyed"
    /\ UNCHANGED <<portState, fs_thread, fs_server, fs_port, tpc, idx,
                   boundPort, shutdownReq, startResult, dpc, cur, data,
                   download_url, log, nEvents, accepted, acceptTxs, registryVars, playerVars>>

----------------------------------------------------------------------------
\* Solver.process_challenge on the event dispatch thread

NoEvent == [task |-> 0, dataOk |-> TRUE]

\* one entry of log: the step taken, whether it succeeded, and its arguments
Step(op, ok, port, text) ==
    [op |-> op, ok |-> ok, task |-> cur.task, token |-> TokenOf(cur.task),
     port |-> port, data |-> text]

\* the port serves requests: the socket is bound to it and serve_forever runs
ServingOn(p) == boundPort = p /\ tpc = "serving"

\* an event reaches process_challenge(token_address, event): task_id is read
\* from event['args']['taskId']. The same task id may be delivered again.
ChallengeEvent ==
    /\ mainPc = "run"
    /\ dpc = "idle"
    /\ nEvents < MaxEvents
    /\ \E t \in Tasks, ok \in BOOLEAN :
          cur' = [task |-> t, dataOk |-> ok]
    /\ nEvents' = nEvents + 1
    /\ dpc' = "accept"
    /\ data' = ""
    /\ download_url' = 0
    /\ log' = <<>>
    /\ UNCHANGED <<portState, fs_thread, fs_server, fs_port, tpc, idx,
                   boundPort, shutdownReq, mainPc, fileserver, startResult,
                   accepted, acceptTxs, registryVars, playerVars>>

\* the accept_task of the same instance that skips the accepted-id lookup
accept_task_unguarded(t, result) ==
    /\ acceptTxs' = [acceptTxs EXCEPT ![t] = Append(@, result)]
    /\ accepted' = IF result THEN accepted \cup {t} ELSE accepted

\* BaseSolver.accept_task(task_id) returning result: a task id this instance
\* has accepted is rejected without a transaction; otherwise the accept
\* transaction is submitted and the ledger's verdict is the result.
accept_task(t, result) ==
    IF t \in accepted
    THEN /\ result = FALSE
         /\ UNCHANGED <<accepted, acceptTxs>>
    ELSE /\ acceptTxs' = [acceptTxs EXCEPT ![t] = Append(@, result)]
         /\ accepted' = IF result THEN accepted \cup {t} ELSE accepted

\* the handler without the return after a rejected accept
ChallengeAccept_noReturn ==
    /\ dpc = "accept"
    /\ \E result \in BOOLEAN :
          /\ accept_task(cur.task, result)
          /\ log' = Append(log, Step("accept", result, 0, ""))
          /\ dpc' = "url"
    /\ UNCHANGED <<portState, fs_thread, fs_server, fs_port, tpc, idx,
                   boundPort, shutdownReq, mainPc, fileserver, startResult,
                   cur, data, download_url, nEvents, registryVars, playerVars>>

\* process_challenge up to "accepted task": a rejected accept returns
ChallengeAccept ==
    /\ dpc = "accept"
    /\ \E result \in BOOLEAN :
          /\ accept_task(cur.task, result)
          /\ log' = Append(log, Step("accept", result, 0, ""))
          /\ dpc' = IF result THEN "url" ELSE "idle"
    /\ UNCHANGED <<portState, fs_thread, fs_server, fs_port, tpc, idx,
                   boundPort, shutdownReq, mainPc, fileserver, startResult,
                   cur, data, download_url, nEvents, registryVars, playerVars>>

\* create_misp_download_url: formats self.fileserver.port into the URL; with
\* self.fileserver = None the attribute access raises AttributeError
ChallengeCreateUrl ==
    /\ dpc = "url"
    /\ IF fileserver
       THEN /\ download_url' = fs_port
            /\ log' = Append(log, Step("url", TRUE, fs_port, ""))
            /\ dpc' = "decode"
            /\ UNCHANGED data
       ELSE /\ data' = "'NoneType' object has no attribute 'port'"
            /\ log' = Append(log, Step("url", FALSE, 0, ""))
            /\ dpc' = "finish"
            /\ UNCHANGED download_url
    /\ UNCHANGED <<portState, fs_thread, fs_server, fs_port, tpc, idx,
                   boundPort, shutdownReq, mainPc, fileserver, startResult,
                   cur, nEvents, accepted, acceptTxs, registryVars, playerVars>>

\* url = Web3.toText(event['args']['data']): raises on bytes that are no text
ChallengeDecode ==
    /\ dpc = "decode"
    /\ IF cur.dataOk
       THEN /\ dpc' = "webhook"
            /\ UNCHANGED <<data, log>>
       ELSE /\ data' = "'utf-8' codec can't decode byte"
            /\ log' = Append(log, Step("decode", FALSE, 0, ""))
            /\ dpc' = "finish"
    /\ UNCHANGED <<portState, fs_thread, fs_server, fs_port, tpc, idx,
                   boundPort, shutdownReq, mainPc, fileserver, startResult,
                   cur, download_url, nEvents, accepted, acceptTxs,
                   registryVars, playerVars>>

\* the handler with finish_task after the try block instead of in finally:
\* an exception of the webhook leaves the handler
ChallengeWebhook_noFinally ==
    /\ dpc = "webhook"
    /\ \/ /\ log' = Append(log, Step("webhook", TRUE, download_url,
                     IF ServingOn(download_url) THEN "serving" ELSE "not serving"))
          /\ dpc' = "finish"
          /\ UNCHANGED data
       \/ \E text \in ExceptionTexts :
          /\ data' = text
          /\ log' = Append(log, Step("webhook", FALSE, download_url,
                     IF ServingOn(download_url) THEN "serving" ELSE "not serving"))
          /\ dpc' = "idle"
    /\ UNCHANGED <<portState, fs_thread, fs_server, fs_port, tpc, idx,
                   boundPort, shutdownReq, mainPc, fileserver, startResult,
                   cur, download_url, nEvents, accepted, acceptTxs,
                   registryVars, playerVars>>

\* self.webhook(url, download_url, token_address): returns, or raises err and
\* the handler sets data = str(err). The entry's data field tells whether the
\* port of the URL was serving when the URL was handed over.
ChallengeWebhook ==
    /\ dpc = "webhook"
    /\ \/ /\ log' = Append(log, Step("webhook", TRUE, download_url,
                     IF ServingOn(download_url) THEN "serving" ELSE "not serving"))
          /\ UNCHANGED data
       \/ \E text \in ExceptionTexts :
          /\ data' = text
          /\ log' = Append(log, Step("webhook", FALSE, download_url,
                     IF ServingOn(download_url) THEN "serving" ELSE "not serving"))
    /\ dpc' = "finish"
    /\ UNCHANGED <<portState, fs_thread, fs_server, fs_port, tpc, idx,
                   boundPort, shutdownReq, mainPc, fileserver, startResult,
                   cur, download_url, nEvents, accepted, acceptTxs,
                   registryVars, playerVars>>

\* the handler that starts from data = 'ok' instead of data = ''
ChallengeFinish_okText ==
    /\ dpc = "finish"
    /\ log' = Append(log, Step("finish", TRUE, 0,
                              IF data = "" THEN "ok" ELSE data))
    /\ dpc' = "idle"
    /\ UNCHANGED <<portState, fs_thread, fs_server, fs_port, tpc, idx,
                   boundPort, shutdownReq, mainPc, fileserver, startResult,
                   cur, data, download_url, nEvents, accepted, acceptTxs,
                   registryVars, playerVars>>

\* finally: self.finish_task(task_id, data)
ChallengeFinish ==
    /\ dpc = "finish"
    /\ log' = Append(log, Step("finish", TRUE, 0, data))
    /\ dpc' = "idle"
    /\ UNCHANGED <<portState, fs_thread, fs_server, fs_port, tpc, idx,
                   boundPort, shutdownReq, mainPc, fileserver, startResult,
                   cur, data, download_url, nEvents, accepted, acceptTxs,
                   registryVars, playerVars>>


----------------------------------------------------------------------------
\* The registered-token registry: save_registered_token, fetch_registered_token

fieldnames == <<"uuid", "tokenAddress", "title", "price", "operator", "quantity">>

UUIDs == {"u1", "u2"}
Tokens == {"0xAA", "0xBB"}

\* cti_metadata as disseminate_token passes it: price and quantity are numbers
Metadatas ==
    [uuid : UUIDs, tokenAddress : Tokens, title : {"title"}, price : {10},
     operator : {"0xOP"}, quantity : {5}]
NoMetadata ==
    [uuid |-> "", tokenAddress |-> "", title |-> "", price |-> 0,
     operator |-> "", quantity |-> 0]

\* csv writes str(value) of every field: the numbers become digits, text
\* stays as it is
NumberFields == {"price", "quantity"}
FieldText(m, name) == IF name \in NumberFields THEN ToString(m[name]) ELSE m[name]

\* DictWriter.writerow: the values of fieldnames, in that order, as text
RowOf(m) == [i \in 1 .. Len(fieldnames) |-> FieldText(m, fieldnames[i])]

\* the key DictReader files surplus fields under (restkey, None)
RestKey == "<restkey>"

\* the text of a list of fields
RECURSIVE ListText(_)
ListText(l) == IF l = <<>> THEN "" ELSE l[1] \o "," \o ListText(Tail(l))

\* DictReader: one row as a dict keyed by the first row of the file; of two
\* equal keys the later column wins, a missing field is None (restval) and
\* surplus fields are filed as a list under restkey
DictOf(header, row) ==
    LET keys == {header[i] : i \in 1 .. Len(header)}
        col(k) == CHOOSE i \in 1 .. Len(header) :
                     /\ header[i] = k
                     /\ \A j \in 1 .. Len(header) : header[j] = k => j <= i
        surplus == Len(row) > Len(header)
    IN  [k \in keys \cup (IF surplus THEN {RestKey} ELSE {}) |->
            IF k \in keys /\ ~(surplus /\ k = RestKey)
            THEN IF col(k) <= Len(row) THEN row[col(k)] ELSE None
            ELSE ListText(SubSeq(row, Len(header) + 1, Len(row)))]

\* fetch_registered_token: the rows after the first as dicts; a missing file
\* gives the empty list
fetch_registered_token(f) ==
    IF ~f.exists \/ Len(f.rows) = 0
    THEN <<>>
    ELSE [i \in 1 .. (Len(f.rows) - 1) |-> DictOf(f.rows[1], f.rows[i + 1])]

\* token.get('uuid')
Get(d, k) == IF k \in DOMAIN d THEN d[k] ELSE None

\* registered_uuid of disseminate_token_from_mispdata
registered_uuid(rows) == {Get(rows[i], "uuid") : i \in 1 .. Len(rows)}

\* one line appended to the file: it continues the last line when that one
\* lacks its line end
AppendLine(rows, torn, line) ==
    IF torn /\ rows # <<>>
    THEN LET last == rows[Len(rows)]
         IN  SubSeq(rows, 1, Len(rows) - 1) \o
             <<SubSeq(last, 1, Len(last) - 1) \o
               <<last[Len(last)] \o line[1]>> \o Tail(line)>>
    ELSE Append(rows, line)

\* the lines of a file after writeheader() (if is_empty) and writerow(m)
WrittenRows(rows, torn, empty, m) ==
    IF empty
    THEN Append(AppendLine(rows, torn, fieldnames), RowOf(m))
    ELSE AppendLine(rows, torn, RowOf(m))

\* save_registered_token, up to is_empty = not os.path.isfile(...)
SaveBegin ==
    /\ rpc = "idle"
    /\ nSaves < MaxSaves
    /\ \E m \in Metadatas : md' = m
    /\ is_empty' = ~file.exists
    /\ nSaves' = nSaves + 1
    /\ rpc' = "open"
    /\ sv_file' = file
    /\ sv_md' = md'
    /\ sv_raised' = FALSE
    /\ cr_inSave' = FALSE
    /\ UNCHANGED <<file, recorded, fetched, fetchedAfter, run, fetchVars,
                   tornTail, nTorn, solverVars, playerVars>>

\* open(REGISTERED_TOKEN_TSV, 'a'): creates the file when it is missing
SaveOpen ==
    /\ rpc = "open"
    /\ file' = [file EXCEPT !.exists = TRUE]
    /\ rpc' = "write"
    /\ UNCHANGED <<md, is_empty, recorded, fetched, fetchedAfter, nSaves, run,
                   fetchVars, saveVars, solverVars, playerVars>>

\* writeheader() if is_empty, writerow(cti_metadata); the file is closed
SaveWrite ==
    /\ rpc = "write"
    /\ file' = [file EXCEPT !.rows = WrittenRows(@, tornTail, is_empty, md)]
    /\ tornTail' = FALSE
    /\ recorded' = recorded \cup {md.uuid}
    /\ rpc' = "idle"
    /\ fetchDirty' = TRUE
    /\ UNCHANGED <<md, is_empty, fetched, fetchedAfter, nSaves, run,
                   fetchedPrev, fetchQuiet, fetchedMissing, fetchedErr, sv_file, sv_md,
                   sv_raised, cr_inSave, nTorn, solverVars, playerVars>>

\* bookkeeping of a fetch: the result before, and whether the file was
\* written since
FetchNote ==
    /\ fetchedPrev' = fetched
    /\ fetchQuiet' = (fetched.done /\ ~fetchDirty)
    /\ fetchDirty' = FALSE
    /\ fetchedMissing' = ~file.exists
    /\ fetchedErr' = FALSE
    /\ fetchedAfter' = recorded

\* fetch_registered_token() with registered_tokens kept from call to call
Fetch_accumulating ==
    /\ rpc = "idle"
    /\ fetched' = [done |-> TRUE,
                   rows |-> fetched.rows \o fetch_registered_token(file)]
    /\ FetchNote
    /\ UNCHANGED <<file, rpc, md, is_empty, recorded, nSaves, run, saveVars,
                   solverVars, playerVars>>

\* fetch_registered_token(): registered_tokens = [], the file is read from
\* its start
Fetch ==
    /\ rpc = "idle"
    /\ fetched' = [done |-> TRUE, rows |-> fetch_registered_token(file)]
    /\ FetchNote
    /\ UNCHANGED <<file, rpc, md, is_empty, recorded, nSaves, run, saveVars,
                   solverVars, playerVars>>

\* fetch_registered_token() when reading raises an error other than
\* FileNotFoundError (undecodable bytes, csv.Error, an I/O error) at the
\* open or after n rows: "except Exception" logs it and the function goes on
\* to "return registered_tokens", the rows appended so far
FetchReadError ==
    /\ rpc = "idle"
    /\ file.exists
    /\ LET all == fetch_registered_token(file)
       IN  \E n \in 0 .. Len(all) :
              fetched' = [done |-> TRUE, rows |-> SubSeq(all, 1, n)]
    /\ fetchedPrev' = fetched
    /\ fetchQuiet' = FALSE
    /\ fetchDirty' = TRUE
    /\ fetchedMissing' = FALSE
    /\ fetchedErr' = TRUE
    /\ fetchedAfter' = recorded
    /\ UNCHANGED <<file, rpc, md, is_empty, recorded, nSaves, run, saveVars,
                   solverVars, playerVars>>

\* the lines of the file when the write stops after k fields of the record:
\* the text file is flushed in one or more write calls, and nothing in
\* save_registered_token makes the record reach the file as a whole
TornRows(rows, torn, empty, m, k) ==
    LET full == WrittenRows(rows, torn, empty, m)
        last == full[Len(full)]
    IN  SubSeq(full, 1, Len(full) - 1) \o
        <<SubSeq(last, 1, Len(last) - (Len(fieldnames) - k))>>

\* a write of the record fails part-way (disk full, quota): the part written
\* stays in the file and the OSError leaves save_registered_token
SaveWriteFails ==
    /\ rpc = "write"
    /\ nTorn < MaxTorn
    /\ nTorn' = nTorn + 1
    /\ \E k \in 1 .. (Len(fieldnames) - 1) :
          file' = [file EXCEPT !.rows = TornRows(@, tornTail, is_empty, md, k)]
    /\ tornTail' = TRUE
    /\ sv_raised' = TRUE
    /\ rpc' = "idle"
    /\ fetchDirty' = TRUE
    /\ UNCHANGED <<md, is_empty, recorded, fetched, fetchedAfter, nSaves, run,
                   fetchedPrev, fetchQuiet, fetchedMissing, fetchedErr, sv_file, sv_md,
                   cr_inSave, solverVars, playerVars>>

\* the process dies between two write calls of the record
CrashInWrite ==
    /\ rpc = "write"
    /\ run < MaxRuns
    /\ nTorn < MaxTorn
    /\ nTorn' = nTorn + 1
    /\ run' = run + 1
    /\ \E k \in 1 .. (Len(fieldnames) - 1) :
          file' = [file EXCEPT !.rows = TornRows(@, tornTail, is_empty, md, k)]
    /\ tornTail' = TRUE
    /\ rpc' = "idle"
    /\ md' = NoMetadata
    /\ is_empty' = FALSE
    /\ fetched' = [done |-> FALSE, rows |-> <<>>]
    /\ fetchedAfter' = {}
    /\ fetchedPrev' = [done |-> FALSE, rows |-> <<>>]
    /\ fetchDirty' = FALSE
    /\ fetchQuiet' = FALSE
    /\ fetchedMissing' = FALSE
    /\ fetchedErr' = FALSE
    /\ cr_inSave' = TRUE
    /\ UNCHANGED <<recorded, nSaves, sv_file, sv_md, sv_raised, solverVars,
                   playerVars>>

\* the process dies and is started again: the file stays, memory is lost
Crash ==
    /\ run < MaxRuns
    /\ run' = run + 1
    /\ rpc' = "idle"
    /\ md' = NoMetadata
    /\ is_empty' = FALSE
    /\ fetched' = [done |-> FALSE, rows |-> <<>>]
    /\ fetchedAfter' = {}
    /\ fetchedPrev' = [done |-> FALSE, rows |-> <<>>]
    /\ fetchDirty' = FALSE
    /\ fetchQuiet' = FALSE
    /\ fetchedMissing' = FALSE
    /\ fetchedErr' = FALSE
    /\ cr_inSave' = (rpc # "idle")
    /\ UNCHANGED <<file, recorded, nSaves, tornTail, sv_file, sv_md, sv_raised,
                   nTorn, solverVars, playerVars>>

----------------------------------------------------------------------------
\* Dissemination: disseminate_token_from_mispdata, disseminate_new_token,
\* disseminate_token, create_asset_content

\* metadata built in disseminate_token_from_mispdata; tokenAddress is set
\* later, in disseminate_token
MetaOf(u) ==
    [uuid |-> u, tokenAddress |-> "", title |-> "title", price |-> 10,
     operator |-> "0xOP", quantity |-> 5]

NoLinks == [t \in Tokens |-> None]

\* bookkeeping of one uuid handed to dissemination
DissemEnter(u) ==
    /\ ds_txs' = 0
    /\ ds_symlinks' = 0
    /\ ds_wasRegistered' = (u \in registered_uuid(fetch_registered_token(file)))
    /\ ds_linkBefore' = None
    /\ ds_fileBefore' = file
    /\ ds_error' = "none"
    /\ nDissems' = nDissems + 1

\* disseminate_token_from_mispdata: registered_uuid is read once, then the
\* glob loop starts
DissemMispBegin ==
    /\ ds_pc = "idle"
    /\ rpc = "idle"
    /\ ds_entry' = "mispdata"
    /\ ds_snapshot' = registered_uuid(fetch_registered_token(file))
    /\ ds_todo' = mispFiles
    /\ ds_pc' = "loop"
    /\ UNCHANGED <<ds_meta, ds_created, links, mispFiles, ds_txs, ds_symlinks,
                   ds_wasRegistered, ds_linkBefore, ds_fileBefore, ds_error, nDissems,
                   registryVars, solverVars, besideDissem>>

\* one round of the loop: a registered uuid is skipped, any other goes to
\* disseminate_new_token; the loop ends when the files are used up
DissemMispNext ==
    /\ ds_pc = "loop"
    /\ IF ds_todo = {}
       THEN /\ ds_pc' = "idle"
            /\ UNCHANGED <<ds_meta, ds_todo, ds_txs, ds_symlinks,
                           ds_wasRegistered, ds_linkBefore, ds_fileBefore, ds_error, nDissems>>
       ELSE /\ nDissems < MaxDissems
            /\ \E u \in ds_todo :
                  /\ ds_todo' = ds_todo \ {u}
                  /\ ds_meta' = MetaOf(u)
                  /\ DissemEnter(u)
                  /\ ds_pc' = IF u \in ds_snapshot THEN "loop" ELSE "create"
    /\ UNCHANGED <<ds_entry, ds_snapshot, ds_created, links, mispFiles,
                   registryVars, solverVars, besideDissem>>

\* disseminate_new_token called with the metadata of a uuid
DissemNewToken ==
    /\ ds_pc = "idle"
    /\ nDissems < MaxDissems
    /\ \E u \in UUIDs :
          /\ ds_meta' = MetaOf(u)
          /\ DissemEnter(u)
    /\ ds_entry' = "new_token"
    /\ ds_pc' = "create"
    /\ UNCHANGED <<ds_snapshot, ds_todo, ds_created, links, mispFiles,
                   registryVars, solverVars, besideDissem>>

\* disseminate_token called with an existing token address and the metadata
\* of a uuid: cti_metadata['tokenAddress'] = token_address
DissemToken ==
    /\ ds_pc = "idle"
    /\ nDissems < MaxDissems
    /\ \E u \in UUIDs, t \in ds_created :
          /\ ds_meta' = [MetaOf(u) EXCEPT !.tokenAddress = t]
          /\ DissemEnter(u)
    /\ ds_entry' = "token"
    /\ ds_pc' = "content"
    /\ UNCHANGED <<ds_snapshot, ds_todo, ds_created, links, mispFiles,
                   registryVars, solverVars, besideDissem>>

\* create_token: deploys a CTIToken, the ledger gives it a fresh address;
\* disseminate_token then stores the address in the metadata
DissemCreateToken ==
    /\ ds_pc = "create"
    /\ ds_txs' = ds_txs + 1
    /\ \E t \in Tokens \ ds_created, ok \in BOOLEAN :
          IF ok
          THEN /\ ds_created' = ds_created \cup {t}
               /\ ds_meta' = [ds_meta EXCEPT !.tokenAddress = t]
               /\ ds_pc' = "content"
               /\ UNCHANGED ds_error
          ELSE /\ ds_error' = "create_token"
               /\ ds_pc' = "idle"
               /\ UNCHANGED <<ds_created, ds_meta>>
    /\ UNCHANGED <<ds_entry, ds_snapshot, ds_todo, links, mispFiles,
                   ds_symlinks, ds_wasRegistered, ds_linkBefore, ds_fileBefore, nDissems,
                   registryVars, solverVars, besideDissem>>

\* create_asset_content with the FileExistsError of os.symlink not caught
DissemContent_uncaught ==
    /\ ds_pc = "content"
    /\ mispFiles' = mispFiles \cup {ds_meta.uuid}
    /\ ds_symlinks' = ds_symlinks + 1
    /\ ds_linkBefore' = links[ds_meta.tokenAddress]
    /\ IF links[ds_meta.tokenAddress] = None
       THEN /\ links' = [links EXCEPT ![ds_meta.tokenAddress] = ds_meta.uuid]
            /\ ds_pc' = "register"
            /\ UNCHANGED ds_error
       ELSE /\ ds_error' = "symlink"
            /\ ds_pc' = "idle"
            /\ UNCHANGED links
    /\ UNCHANGED <<ds_entry, ds_meta, ds_snapshot, ds_todo, ds_created,
                   ds_txs, ds_wasRegistered, ds_fileBefore, nDissems,
                   registryVars, solverVars, besideDissem>>

\* create_asset_content: a missing MISP file gets a placeholder, then
\* os.symlink(misp_filepath, dist_linkpath); FileExistsError is logged
DissemContent ==
    /\ ds_pc = "content"
    /\ mispFiles' = mispFiles \cup {ds_meta.uuid}
    /\ ds_symlinks' = ds_symlinks + 1
    /\ ds_linkBefore' = links[ds_meta.tokenAddress]
    /\ links' = IF links[ds_meta.tokenAddress] = None
                THEN [links EXCEPT ![ds_meta.tokenAddress] = ds_meta.uuid]
                ELSE links
    /\ ds_pc' = "register"
    /\ UNCHANGED <<ds_entry, ds_meta, ds_snapshot, ds_todo, ds_created,
                   ds_txs, ds_wasRegistered, ds_fileBefore, ds_error, nDissems,
                   registryVars,
                   solverVars, besideDissem>>

\* disseminate_token going on to save_registered_token after a failed
\* register_catalog
DissemRegister_saveAnyway ==
    /\ ds_pc = "register"
    /\ ds_txs' = ds_txs + 1
    /\ \E ok \in BOOLEAN :
          IF ok
          THEN ds_pc' = "save" /\ UNCHANGED ds_error
          ELSE ds_pc' = "save" /\ ds_error' = "register_catalog"
    /\ UNCHANGED <<ds_entry, ds_meta, ds_snapshot, ds_todo, ds_created, links,
                   mispFiles, ds_symlinks, ds_wasRegistered, ds_linkBefore,
                   ds_fileBefore, nDissems, registryVars, solverVars,
                   besideDissem>>

\* register_catalog: the catalog registration transaction; its failure is
\* raised out of the dissemination
DissemRegister ==
    /\ ds_pc = "register"
    /\ ds_txs' = ds_txs + 1
    /\ \E ok \in BOOLEAN :
          IF ok
          THEN ds_pc' = "save" /\ UNCHANGED ds_error
          ELSE ds_pc' = "idle" /\ ds_error' = "register_catalog"
    /\ UNCHANGED <<ds_entry, ds_meta, ds_snapshot, ds_todo, ds_created, links,
                   mispFiles, ds_symlinks, ds_wasRegistered, ds_linkBefore, ds_fileBefore,
                   nDissems, registryVars, solverVars, besideDissem>>

\* self.save_registered_token(cti_metadata), up to is_empty = ...
DissemSave ==
    /\ ds_pc = "save"
    /\ rpc = "idle"
    /\ md' = ds_meta
    /\ is_empty' = ~file.exists
    /\ nSaves' = nSaves + 1
    /\ rpc' = "open"
    /\ ds_pc' = "saving"
    /\ sv_file' = file
    /\ sv_md' = ds_meta
    /\ sv_raised' = FALSE
    /\ cr_inSave' = FALSE
    /\ UNCHANGED <<file, recorded, fetched, fetchedAfter, run, fetchVars,
                   tornTail, nTorn, ds_entry, ds_meta, ds_snapshot, ds_todo, ds_created, links,
                   mispFiles, ds_txs, ds_symlinks, ds_wasRegistered,
                   ds_linkBefore, ds_fileBefore, ds_error, nDissems, solverVars, besideDissem>>

\* save_registered_token has returned; disseminate_token returns
DissemSaved ==
    /\ ds_pc = "saving"
    /\ rpc = "idle"
    /\ ds_pc' = IF ds_entry = "token" THEN "idle" ELSE "consign"
    /\ UNCHANGED <<ds_entry, ds_meta, ds_snapshot, ds_todo, ds_created, links,
                   mispFiles, ds_txs, ds_symlinks, ds_wasRegistered,
                   ds_linkBefore, ds_fileBefore, ds_error, nDissems, registryVars,
                   solverVars, besideDissem>>

\* if num_consign > 0: self.inventory.consign(...); disseminate_new_token
\* returns, into the loop when the loop called it
DissemConsign ==
    /\ ds_pc = "consign"
    /\ \E num_consign \in {0, 1}, ok \in BOOLEAN :
          /\ ds_txs' = IF num_consign > 0 THEN ds_txs + 1 ELSE ds_txs
          /\ IF num_consign > 0 /\ ~ok
             THEN ds_pc' = "idle" /\ ds_error' = "consign"
             ELSE /\ ds_pc' = IF ds_entry = "mispdata" THEN "loop" ELSE "idle"
                  /\ UNCHANGED ds_error
    /\ UNCHANGED <<ds_entry, ds_meta, ds_snapshot, ds_todo, ds_created, links,
                   mispFiles, ds_symlinks, ds_wasRegistered, ds_linkBefore, ds_fileBefore,
                   nDissems, registryVars, solverVars, besideDissem>>

----------------------------------------------------------------------------
\* receive_challenge_answer and _save_download_url

\* a key the payload does not have
Missing == "<missing>"
URLs == {"http://h:50080/a", "http://h:50080/b"}
Payloads ==
    [download_url : URLs \cup {"", Missing},
     token_address : Tokens \cup {"", Missing}]

\* the check of the payload looking at download_url only
Unparsable_urlOnly(d) ==
    d.download_url \in {"", Missing}

\* data['download_url'] or data['token_address'] raises KeyError, or
\* len(...) == 0 raises Exception('received empty data')
Unparsable(d) ==
    \/ d.download_url \in {"", Missing}
    \/ d.token_address \in {"", Missing}

NoPayload == [download_url |-> Missing, token_address |-> Missing]
NoResult == [done |-> FALSE, ok |-> FALSE, raised |-> FALSE]
NoFiles == [t \in Tokens |-> None]

\* the call returns (ok, msg)
Returned(ok) == [done |-> TRUE, ok |-> ok, raised |-> FALSE]

\* lines 605-617: the payload is taken apart; an unparsable one ends the
\* call with (False, msg)
AnswerReceive ==
    /\ an_pc = "idle"
    /\ nAnswers < MaxAnswers
    /\ nAnswers' = nAnswers + 1
    /\ \E d \in Payloads :
          /\ an_data' = d
          /\ IF Unparsable(d)
             THEN /\ an_msg' = <<"unparsable">>
                  /\ an_result' = Returned(FALSE)
                  /\ an_pc' = "idle"
             ELSE /\ an_msg' = <<"url", "token">>
                  /\ an_result' = NoResult
                  /\ an_pc' = "download"
    /\ an_dlFailed' = FALSE
    /\ an_urlFailed' = FALSE
    /\ an_downloads' = 0
    /\ UNCHANGED <<urlFiles, jsonFiles, besideAnswer>>

\* lines 619-631 with the failed download returning at once
AnswerDownload_noSave ==
    /\ an_pc = "download"
    /\ an_downloads' = an_downloads + 1
    /\ \E ok \in BOOLEAN :
          IF ok
          THEN /\ an_msg' = Append(an_msg, "title")
               /\ an_pc' = "store"
               /\ UNCHANGED <<an_dlFailed, an_result>>
          ELSE /\ an_msg' = an_msg \o <<"download failed", "manual">>
               /\ an_dlFailed' = TRUE
               /\ an_result' = Returned(TRUE)
               /\ an_pc' = "idle"
    /\ UNCHANGED <<an_data, an_urlFailed, urlFiles, jsonFiles, nAnswers,
                   besideAnswer>>

\* lines 619-638: urlopen(request); a failure adds its text to msg and goes
\* to _save_download_url, a success goes on with the title of the data
AnswerDownload ==
    /\ an_pc = "download"
    /\ an_downloads' = an_downloads + 1
    /\ \E ok \in BOOLEAN :
          IF ok
          THEN /\ an_msg' = Append(an_msg, "title")
               /\ an_pc' = "store"
               /\ UNCHANGED an_dlFailed
          ELSE /\ an_msg' = an_msg \o <<"download failed", "manual">>
               /\ an_dlFailed' = TRUE
               /\ an_pc' = "saveurl"
    /\ UNCHANGED <<an_data, an_result, an_urlFailed, urlFiles, jsonFiles,
                   nAnswers, besideAnswer>>

\* lines 640-652: the downloaded data is written to <token>.json; open(...,
\* 'wb') may have truncated the file before the write fails
AnswerStore ==
    /\ an_pc = "store"
    /\ \E outcome \in {"ok", "nofile", "truncated"} :
          IF outcome = "ok"
          THEN /\ jsonFiles' = [jsonFiles EXCEPT ![an_data.token_address] = "rdata"]
               /\ an_msg' = Append(an_msg, "saved")
               /\ an_result' = Returned(TRUE)
               /\ an_pc' = "idle"
          ELSE /\ jsonFiles' = IF outcome = "truncated"
                               THEN [jsonFiles EXCEPT ![an_data.token_address] = ""]
                               ELSE jsonFiles
               /\ an_msg' = an_msg \o <<"store failed", "manual">>
               /\ an_pc' = "saveurl"
               /\ UNCHANGED an_result
    /\ UNCHANGED <<an_data, an_dlFailed, an_urlFailed, an_downloads, urlFiles,
                   nAnswers, besideAnswer>>

\* _save_download_url: the url is written to <token>.url; any exception is
\* turned into the returned text. Then return True, msg
AnswerSaveUrl ==
    /\ an_pc = "saveurl"
    /\ \E outcome \in {"ok", "nofile", "truncated"} :
          /\ urlFiles' =
                CASE outcome = "ok" ->
                        [urlFiles EXCEPT ![an_data.token_address] = an_data.download_url]
                  [] outcome = "truncated" ->
                        [urlFiles EXCEPT ![an_data.token_address] = ""]
                  [] OTHER -> urlFiles
          /\ an_urlFailed' = (outcome # "ok")
          /\ an_msg' = Append(an_msg, IF outcome = "ok" THEN "url saved"
                                                       ELSE "url save failed")
    /\ an_result' = Returned(TRUE)
    /\ an_pc' = "idle"
    /\ UNCHANGED <<an_data, an_dlFailed, an_downloads, jsonFiles, nAnswers,
                   besideAnswer>>

----------------------------------------------------------------------------
\* watch_token_start, watch_token_stop, and the event listener they use
\* (add_event_filter, remove_event_filter_in_callback, the dispatch loop)

EventNames == {"Sent:", "Challenge:"}
Keys == EventNames \X Tokens
\* 'Sent:'+token_address
SentKey(t) == <<"Sent:", t>>

\* what a registered callback does when it is invoked
Callbacks == {"keep", "stop_self"}
NoSubs == [k \in Keys |-> None]

\* add_event_filter that replaces the subscription of a registered key
add_event_filter_replacing(key, callback) ==
    /\ w_startError' = FALSE
    /\ subs' = [subs EXCEPT ![key] = callback]

\* add_event_filter(key, event_filter, callback): a key that is already
\* registered is refused
add_event_filter(key, callback) ==
    IF subs[key] # None
    THEN /\ w_startError' = TRUE
         /\ UNCHANGED subs
    ELSE /\ w_startError' = FALSE
         /\ subs' = [subs EXCEPT ![key] = callback]

\* watch_token_start(token_address, callback), from the foreground
watch_token_start ==
    /\ nWatches < MaxWatches
    /\ nWatches' = nWatches + 1
    /\ \E t \in Tokens, cb \in Callbacks :
          /\ add_event_filter(SentKey(t), cb)
          /\ w_stopped' = IF subs[SentKey(t)] = None
                          THEN [w_stopped EXCEPT ![t] = FALSE]
                          ELSE w_stopped
          /\ w_missed' = IF subs[SentKey(t)] = None
                         THEN [w_missed EXCEPT ![t] = 0]
                         ELSE w_missed
          /\ w_rewatched' = IF subs[SentKey(t)] = None /\ w_stopped[t]
                            THEN w_rewatched \cup {t}
                            ELSE w_rewatched
    /\ UNCHANGED <<w_pending, w_pc, w_event, w_loopAlive, w_callsAfterStop,
                   nWatchEvents, besideWatch>>

\* the dispatch loop takes the next Sent event off the ledger's feed
DispatchPoll ==
    /\ w_pc = "poll"
    /\ w_loopAlive
    /\ nWatchEvents < MaxWatchEvents
    /\ nWatchEvents' = nWatchEvents + 1
    /\ \E t \in Tokens : w_event' = t
    /\ w_pc' = "match"
    /\ UNCHANGED <<subs, w_pending, w_loopAlive, w_stopped, w_callsAfterStop,
                   w_missed, w_startError, w_rewatched, nWatches, besideWatch>>

\* the event is matched against the active filters; the callback of a
\* matching subscription is invoked on the dispatch thread
DispatchMatch ==
    /\ w_pc = "match"
    /\ IF subs[SentKey(w_event)] # None
       THEN /\ w_pc' = "callback"
            /\ w_callsAfterStop' = IF w_stopped[w_event]
                                   THEN w_callsAfterStop + 1
                                   ELSE w_callsAfterStop
            /\ UNCHANGED w_missed
       ELSE /\ w_pc' = "poll"
            /\ w_missed' = [w_missed EXCEPT ![w_event] =
                               IF w_stopped[w_event] THEN 1 ELSE @]
            /\ UNCHANGED w_callsAfterStop
    /\ UNCHANGED <<subs, w_pending, w_event, w_loopAlive, w_stopped,
                   w_startError, w_rewatched, nWatchEvents, nWatches, besideWatch>>

\* remove_event_filter_in_callback(key): the removal is deferred until the
\* callback has returned; an unknown key is an error raised into the callback
remove_event_filter_in_callback(key) ==
    IF subs[key] # None
    THEN w_pending' = w_pending \cup {key}
    ELSE UNCHANGED w_pending

\* watch_token_stop removing another event's key of the token
watch_token_stop_otherKey ==
    /\ w_pc = "callback"
    /\ subs[SentKey(w_event)] = "stop_self"
    /\ remove_event_filter_in_callback(<<"Challenge:", w_event>>)
    /\ w_stopped' = [w_stopped EXCEPT ![w_event] = TRUE]
    /\ w_pc' = "return"
    /\ UNCHANGED <<subs, w_event, w_loopAlive, w_callsAfterStop, w_missed,
                   w_startError, w_rewatched, nWatchEvents, nWatches, besideWatch>>

\* watch_token_stop(token_address), called by the callback of that token
\* while it is being dispatched
watch_token_stop ==
    /\ w_pc = "callback"
    /\ subs[SentKey(w_event)] = "stop_self"
    /\ remove_event_filter_in_callback(SentKey(w_event))
    /\ w_stopped' = [w_stopped EXCEPT ![w_event] = TRUE]
    /\ w_pc' = "return"
    /\ UNCHANGED <<subs, w_event, w_loopAlive, w_callsAfterStop, w_missed,
                   w_startError, w_rewatched, nWatchEvents, nWatches, besideWatch>>

\* a callback that does not stop its watch runs to its end
CallbackKeep ==
    /\ w_pc = "callback"
    /\ subs[SentKey(w_event)] = "keep"
    /\ w_pc' = "return"
    /\ UNCHANGED <<subs, w_pending, w_event, w_loopAlive, w_stopped,
                   w_callsAfterStop, w_missed, w_startError, w_rewatched, nWatchEvents,
                   nWatches, besideWatch>>

\* the callback has returned or raised (an exception is caught and logged):
\* the deferred removals are applied and the loop goes on
CallbackReturn ==
    /\ w_pc = "return"
    /\ subs' = [k \in Keys |-> IF k \in w_pending THEN None ELSE subs[k]]
    /\ w_pending' = {}
    /\ w_pc' = "poll"
    /\ UNCHANGED <<w_event, w_loopAlive, w_stopped, w_callsAfterStop, w_missed,
                   w_startError, w_rewatched, nWatchEvents, nWatches, besideWatch>>

----------------------------------------------------------------------------
\* State-changing ledger calls: CTIToken.send_token, burn_token,
\* authorize_operator, revoke_operator; Player.deploy_erc1820; and the Player
\* operations that change the local account's balance

\* CTIToken operations, each one func.transact() and one receipt
TokenOps == {"send", "burn", "authorizeOperator", "revokeOperator"}
\* Player operations around a transaction
PlayerOps == {"send_token", "burn_token", "request_challenge",
              "disseminate_new_token", "deploy_erc1820"}
LedgerOps == TokenOps \cup PlayerOps

\* cti_metadata['quantity'], the initial supply of a created token
InitialSupply == 2

\* the change of the local account's balance a successful transaction makes
BalanceAfter(op, bal) ==
    CASE op \in {"send", "send_token", "burn", "burn_token",
                 "request_challenge"} -> bal - 1
      [] op = "disseminate_new_token" -> InitialSupply
      [] OTHER -> bal

\* a transaction that spends a token is reverted when there is none to spend
CanSucceed(op, bal) == BalanceAfter(op, bal) >= 0

\* status of a receipt that was never fetched
NoStatus == 2

\* an operation is called; deploy_erc1820 returns at once when the registry
\* contract has code
LedgerCall ==
    /\ lg_pc = "idle"
    /\ nCalls < MaxCalls
    /\ nCalls' = nCalls + 1
    /\ \E op \in LedgerOps, t \in Tokens, code \in BOOLEAN :
          /\ lg_op' = op
          /\ lg_token' = t
          \* create_token deploys a token the account holds nothing of yet
          /\ op = "disseminate_new_token" =>
                (ledgerBal[t] = 0 /\ cacheBal[t] = 0)
          /\ IF op = "deploy_erc1820" /\ code
             THEN lg_pc' = "idle" /\ lg_result' = Returned(TRUE)
             ELSE lg_pc' = "transact" /\ lg_result' = NoResult
    /\ lg_stage' = 1
    /\ lg_status' = NoStatus
    /\ lg_failed' = FALSE
    /\ lg_changed' = FALSE
    /\ lg_txs' = 0
    /\ UNCHANGED <<ledgerBal, cacheBal, besideLedger>>

\* tx_hash = func.transact(); tx_receipt = waitForTransactionReceipt(tx_hash)
LedgerTransact ==
    /\ lg_pc = "transact"
    /\ lg_txs' = lg_txs + 1
    /\ \E status \in {0, 1} :
          /\ status = 1 => CanSucceed(lg_op, ledgerBal[lg_token])
          /\ lg_status' = status
          /\ lg_failed' = (lg_failed \/ status # 1)
          /\ IF status = 1
             THEN /\ ledgerBal' = [ledgerBal EXCEPT ![lg_token] =
                                      BalanceAfter(lg_op, @)]
                  /\ lg_changed' = (lg_changed \/
                        BalanceAfter(lg_op, ledgerBal[lg_token]) #
                            ledgerBal[lg_token])
             ELSE UNCHANGED <<ledgerBal, lg_changed>>
    /\ lg_pc' = "receipt"
    /\ UNCHANGED <<lg_op, lg_token, lg_stage, lg_result, cacheBal, nCalls,
                   besideLedger>>

\* the receipt check of CTIToken with a failed transaction submitted again
TokenCheckReceipt_retry ==
    /\ lg_pc = "receipt"
    /\ lg_op \in TokenOps \cup {"send_token", "burn_token"}
    /\ IF lg_status # 1
       THEN IF lg_txs < 2
            THEN lg_pc' = "transact" /\ UNCHANGED lg_result
            ELSE lg_pc' = "idle" /\
                 lg_result' = [done |-> TRUE, ok |-> FALSE, raised |-> TRUE]
       ELSE IF lg_op \in TokenOps
            THEN lg_pc' = "idle" /\ lg_result' = Returned(TRUE)
            ELSE lg_pc' = "reconcile" /\ UNCHANGED lg_result
    /\ UNCHANGED <<lg_op, lg_token, lg_stage, lg_status, lg_failed, lg_changed,
                   lg_txs, ledgerBal, cacheBal, nCalls, besideLedger>>

\* if tx_receipt['status'] != 1: raise ValueError('Transaction failed: ...').
\* Player.send_token and Player.burn_token go on to the inventory
TokenCheckReceipt ==
    /\ lg_pc = "receipt"
    /\ lg_op \in TokenOps \cup {"send_token", "burn_token"}
    /\ IF lg_status # 1
       THEN lg_pc' = "idle" /\
            lg_result' = [done |-> TRUE, ok |-> FALSE, raised |-> TRUE]
       ELSE IF lg_op \in TokenOps
            THEN lg_pc' = "idle" /\ lg_result' = Returned(TRUE)
            ELSE lg_pc' = "reconcile" /\ UNCHANGED lg_result
    /\ UNCHANGED <<lg_op, lg_token, lg_stage, lg_status, lg_failed, lg_changed,
                   lg_txs, ledgerBal, cacheBal, nCalls, besideLedger>>

\* deploy_erc1820 going on after a failed first receipt
Erc1820CheckReceipt_ignored ==
    /\ lg_pc = "receipt"
    /\ lg_op = "deploy_erc1820"
    /\ IF lg_status # 1 /\ lg_stage = 2
       THEN /\ lg_pc' = "idle"
            /\ lg_result' = [done |-> TRUE, ok |-> FALSE, raised |-> TRUE]
            /\ UNCHANGED lg_stage
       ELSE IF lg_stage = 1
            THEN lg_pc' = "transact" /\ lg_stage' = 2 /\ UNCHANGED lg_result
            ELSE /\ lg_pc' = "idle" /\ lg_result' = Returned(TRUE)
                 /\ UNCHANGED lg_stage
    /\ UNCHANGED <<lg_op, lg_token, lg_status, lg_failed, lg_changed, lg_txs,
                   ledgerBal, cacheBal, nCalls, besideLedger>>

\* deploy_erc1820: either receipt with status != 1 raises ValueError, which
\* the except clause raises again as ValueError; the first success leads to
\* sendRawTransaction
Erc1820CheckReceipt ==
    /\ lg_pc = "receipt"
    /\ lg_op = "deploy_erc1820"
    /\ IF lg_status # 1
       THEN /\ lg_pc' = "idle"
            /\ lg_result' = [done |-> TRUE, ok |-> FALSE, raised |-> TRUE]
            /\ UNCHANGED lg_stage
       ELSE IF lg_stage = 1
            THEN lg_pc' = "transact" /\ lg_stage' = 2 /\ UNCHANGED lg_result
            ELSE /\ lg_pc' = "idle" /\ lg_result' = Returned(TRUE)
                 /\ UNCHANGED lg_stage
    /\ UNCHANGED <<lg_op, lg_token, lg_status, lg_failed, lg_changed, lg_txs,
                   ledgerBal, cacheBal, nCalls, besideLedger>>

\* if self.seeker.challenge(...): update_balanceof_myself(token_address)
ChallengeCheck ==
    /\ lg_pc = "receipt"
    /\ lg_op = "request_challenge"
    /\ IF lg_status = 1
       THEN lg_pc' = "reconcile" /\ UNCHANGED lg_result
       ELSE lg_pc' = "idle" /\ lg_result' = Returned(TRUE)
    /\ UNCHANGED <<lg_op, lg_token, lg_stage, lg_status, lg_failed, lg_changed,
                   lg_txs, ledgerBal, cacheBal, nCalls, besideLedger>>

\* disseminate_new_token after create_token: the token is disseminated and
\* its address returned; a failed creation is raised
CreateTokenCheck ==
    /\ lg_pc = "receipt"
    /\ lg_op = "disseminate_new_token"
    /\ lg_pc' = "idle"
    /\ lg_result' = IF lg_status = 1
                    THEN Returned(TRUE)
                    ELSE [done |-> TRUE, ok |-> FALSE, raised |-> TRUE]
    /\ UNCHANGED <<lg_op, lg_token, lg_stage, lg_status, lg_failed, lg_changed,
                   lg_txs, ledgerBal, cacheBal, nCalls, besideLedger>>

\* self.inventory.update_balanceof_myself(token_address): the cached balance
\* is read again from the ledger; then the operation returns
update_balanceof_myself ==
    /\ lg_pc = "reconcile"
    /\ cacheBal' = [cacheBal EXCEPT ![lg_token] = ledgerBal[lg_token]]
    /\ lg_result' = Returned(TRUE)
    /\ lg_pc' = "idle"
    /\ UNCHANGED <<lg_op, lg_token, lg_stage, lg_status, lg_failed, lg_changed,
                   lg_txs, ledgerBal, nCalls, besideLedger>>

----------------------------------------------------------------------------
\* Player.__init__, lines 125-158: the addresses of the configuration, and
\* _fix_config_address

\* addresses for which web3.isChecksumAddress holds
ValidAddrs == {"0xAA", "0xBB"}
\* a configured scalar: a checksum address, a lower-case address, no
\* address, nothing, blanks
ScalarValues == {"0xAA", "0xaa", "nonaddr", "", " "}
\* the pieces of '[...]'.strip('[]').split(','), as written
RawEntries == {"'0xAA'", " '0xBB'", "nonaddr", "", " "}
\* x.strip(" '")
StripQuotes(x) ==
    CASE x = "'0xAA'" -> "0xAA"
      [] x = " '0xBB'" -> "0xBB"
      [] x = " " -> ""
      [] OTHER -> x
\* target.strip()
StripBlanks(x) == IF x = " " THEN "" ELSE x

RawLists == UNION {[1..n -> RawEntries] : n \in 0..MaxEntries}

\* the placeholder for a value not handed over yet
Unset == "unset"

\* _fix_config_address(target)
fix_config_address(target) ==
    IF target = None \/ StripBlanks(target) = ""
    THEN None
    ELSE IF target \in ValidAddrs THEN target ELSE None

\* [self._fix_config_address(x.strip(" '")) for x in ...split(',') if x]
FixedList(raw) ==
    LET kept == SelectSeq(raw, LAMBDA x : x # "")
    IN  [i \in 1..Len(kept) |-> fix_config_address(StripQuotes(kept[i]))]

\* lines 126-130: the broker address goes to Inventory
ConfigBroker ==
    /\ cf_pc = "broker"
    /\ \E raw \in ScalarValues :
          /\ cf_raw' = <<raw>>
          /\ inv_broker' = fix_config_address(raw)
    /\ cf_pc' = "catalog"
    /\ UNCHANGED <<inv_calls, operator_address, plugin_given, solver_given,
                   besideConfig>>

\* lines 132-136: the catalog addresses go to catalog_ctrl when the list is
\* not empty
ConfigCatalog ==
    /\ cf_pc = "catalog"
    /\ \E raw \in RawLists :
          /\ cf_raw' = raw
          /\ inv_calls' =
                IF FixedList(raw) # <<>>
                THEN Append(inv_calls, [ops |-> <<"add", "activate">>,
                                        addresses |-> FixedList(raw)])
                ELSE inv_calls
    /\ cf_pc' = "reserves"
    /\ UNCHANGED <<inv_broker, operator_address, plugin_given, solver_given,
                   besideConfig>>

\* lines 137-141: the reserve addresses likewise
ConfigReserves ==
    /\ cf_pc = "reserves"
    /\ \E raw \in RawLists :
          /\ cf_raw' = raw
          /\ inv_calls' =
                IF FixedList(raw) # <<>>
                THEN Append(inv_calls, [ops |-> <<"add">>,
                                        addresses |-> FixedList(raw)])
                ELSE inv_calls
    /\ cf_pc' = "operator"
    /\ UNCHANGED <<inv_broker, operator_address, plugin_given, solver_given,
                   besideConfig>>

\* lines 147-148: self.operator_address
ConfigOperator ==
    /\ cf_pc = "operator"
    /\ \E raw \in ScalarValues :
          /\ cf_raw' = <<raw>>
          /\ operator_address' = fix_config_address(raw)
    /\ cf_pc' = "plugin"
    /\ UNCHANGED <<inv_broker, inv_calls, plugin_given, solver_given,
                   besideConfig>>

\* lines 150-158: plugin.set_solverclass when a plugin file is configured,
\* then SolverWrapper
ConfigSolver ==
    /\ cf_pc = "plugin"
    /\ \E solver_pluginfile \in {"", "standalone_solver.py"} :
          plugin_given' = IF solver_pluginfile # ""
                          THEN Append(plugin_given, operator_address)
                          ELSE plugin_given
    /\ solver_given' = operator_address
    /\ cf_pc' = "done"
    /\ UNCHANGED <<cf_raw, inv_broker, inv_calls, operator_address,
                   besideConfig>>

----------------------------------------------------------------------------
\* disseminate_token_from_mispdata running on the event dispatch thread
\* while the foreground disseminates: its lookup in the registry and its
\* save_registered_token, step by step. No lock guards the registry.

\* the address of a token created on the dispatch thread
DtToken == "0xCC"

\* lines 452-458 and 469-476: registered_uuid is read, a uuid that is not in
\* it is taken up
DtLookup ==
    /\ dt_pc = "idle"
    /\ nDt < MaxDissems
    /\ nDt' = nDt + 1
    /\ \E u \in mispFiles \ registered_uuid(fetch_registered_token(file)) :
          dt_md' = [MetaOf(u) EXCEPT !.tokenAddress = DtToken]
    /\ dt_pc' = "save"
    /\ UNCHANGED <<dt_is_empty, registryVars, besideDt>>

\* save_registered_token on the dispatch thread: is_empty = not isfile(...)
DtSaveBegin ==
    /\ dt_pc = "save"
    /\ dt_is_empty' = ~file.exists
    /\ dt_pc' = "open"
    /\ UNCHANGED <<dt_md, nDt, registryVars, besideDt>>

\* open(REGISTERED_TOKEN_TSV, 'a') on the dispatch thread
DtSaveOpen ==
    /\ dt_pc = "open"
    /\ file' = [file EXCEPT !.exists = TRUE]
    /\ dt_pc' = "write"
    /\ UNCHANGED <<dt_md, dt_is_empty, nDt, rpc, md, is_empty, recorded,
                   fetched, fetchedAfter, nSaves, run, fetchVars, saveVars,
                   besideDt>>

\* writeheader() if is_empty, writerow(cti_metadata) on the dispatch thread
DtSaveWrite ==
    /\ dt_pc = "write"
    /\ file' = [file EXCEPT !.rows =
                   WrittenRows(@, tornTail, dt_is_empty, dt_md)]
    /\ tornTail' = FALSE
    /\ recorded' = recorded \cup {dt_md.uuid}
    /\ fetchDirty' = TRUE
    /\ dt_pc' = "idle"
    /\ UNCHANGED <<dt_md, dt_is_empty, nDt, rpc, md, is_empty, fetched,
                   fetchedAfter, nSaves, run, fetchedPrev, fetchQuiet,
                   fetchedMissing, fetchedErr, sv_file, sv_md, sv_raised, cr_inSave, nTorn,
                   besideDt>>

----------------------------------------------------------------------------
\* Player.accept_challenges -> solver.accept_challenges, called from the
\* foreground while the dispatch thread runs process_challenge

\* accept_challenges that takes up a pending task itself, in the calling
\* thread
accept_challenges_inline ==
    /\ nAccepts < MaxAccepts
    /\ nAccepts' = nAccepts + 1
    /\ \E tokens \in SUBSET Tokens \ {{}} :
          /\ ch_wanted' = ch_wanted \cup tokens
          /\ \E t \in Tasks :
                TokenOf(t) \in tokens /\ fg_active' = fg_active \cup {t}
    /\ UNCHANGED besideFg

\* accept_challenges(token_addresses): the solver subscribes to the
\* challenges of the tokens; their events, pending ones too, reach
\* process_challenge through the event listener
accept_challenges ==
    /\ nAccepts < MaxAccepts
    /\ nAccepts' = nAccepts + 1
    /\ \E tokens \in SUBSET Tokens \ {{}} :
          ch_wanted' = ch_wanted \cup tokens
    /\ UNCHANGED <<fg_active, besideFg>>

----------------------------------------------------------------------------
\* fetch_trusted_users and the trusted-users file, which is edited by hand

\* checksummed addresses, and what the id column of a row can hold: an
\* address in lower case or checksummed, or something that is no address
UserAddrs == {"0xAb12", "0xCd34"}
IdTexts == {"0xab12", "0xAb12", "0xcd34", "alice"}
Headers == {"id", "name"}
NoTuFile == [exists |-> FALSE, header |-> "id", rows |-> <<>>]

\* Web3.toChecksumAddress(text): the checksummed form of an address of any
\* case; None stands for the exception on a text that is no address
toChecksumAddress(text) ==
    CASE text \in {"0xab12", "0xAb12"} -> "0xAb12"
      [] text \in {"0xcd34", "0xCd34"} -> "0xCd34"
      [] OTHER -> None

\* row['id'] of a row read by csv.DictReader: with another header the key
\* is missing and row['id'] raises KeyError
RowId(f, i) == IF f.header = "id" THEN f.rows[i] ELSE None

RECURSIVE TrustedOf(_, _, _)
\* the loop of fetch_trusted_users over the rows from i on: a row whose id
\* does not convert is skipped, and so is the own account id
TrustedOf(f, i, own) ==
    IF i > Len(f.rows) THEN <<>>
    ELSE LET id == toChecksumAddress(RowId(f, i))
         IN  IF id = None \/ id = own
             THEN TrustedOf(f, i + 1, own)
             ELSE <<id>> \o TrustedOf(f, i + 1, own)

\* the rows 1..n of the file
FirstRows(f, n) == [f EXCEPT !.rows = SubSeq(f.rows, 1, n)]

\* somebody creates the file with a header row, adds a row to it, or
\* removes it
EditTrustedUsers ==
    /\ nTuEdits < MaxTuEdits
    /\ nTuEdits' = nTuEdits + 1
    /\ IF tu_file.exists
       THEN \/ \E text \in IdTexts :
                 tu_file' = [tu_file EXCEPT !.rows = Append(@, text)]
            \/ tu_file' = NoTuFile
       ELSE \E h \in Headers :
               tu_file' = [exists |-> TRUE, header |-> h, rows |-> <<>>]
    /\ tu_edited' = TRUE
    /\ UNCHANGED <<account_id, trusted_users, tu_read, tu_prev, tu_outcome,
                   nTuFetches, besideTu>>

\* fetch_trusted_users assigning self.trusted_users in the error handler too
fetch_trusted_users_partial ==
    /\ nTuFetches < MaxTuFetches
    /\ nTuFetches' = nTuFetches + 1
    /\ tu_prev' = trusted_users
    /\ tu_read' = tu_file
    /\ tu_edited' = FALSE
    /\ IF ~tu_file.exists
       THEN /\ tu_outcome' = "missing"
            /\ UNCHANGED trusted_users
       ELSE \/ /\ tu_outcome' = "ok"
               /\ trusted_users' = TrustedOf(tu_file, 1, account_id)
            \/ /\ tu_outcome' = "error"
               /\ \E n \in 0 .. Len(tu_file.rows) :
                     trusted_users' = TrustedOf(FirstRows(tu_file, n), 1, account_id)
    /\ UNCHANGED <<account_id, tu_file, nTuEdits, besideTu>>

\* fetch_trusted_users(): FileNotFoundError is passed over, any other error
\* of the read is logged; self.trusted_users is assigned after the loop only
fetch_trusted_users ==
    /\ nTuFetches < MaxTuFetches
    /\ nTuFetches' = nTuFetches + 1
    /\ tu_prev' = trusted_users
    /\ tu_read' = tu_file
    /\ tu_edited' = FALSE
    /\ IF ~tu_file.exists
       THEN /\ tu_outcome' = "missing"
            /\ UNCHANGED trusted_users
       ELSE \/ /\ tu_outcome' = "ok"
               /\ trusted_users' = TrustedOf(tu_file, 1, account_id)
            \/ /\ tu_outcome' = "error"
               /\ UNCHANGED trusted_users
    /\ UNCHANGED <<account_id, tu_file, nTuEdits, besideTu>>

----------------------------------------------------------------------------
\* LocalHttpServer.start called again on the same object, and the thread it
\* starts

Thread2Alive == t2pc \in {"iter", "bind", "bound", "serve_enter", "serving"}

\* start(): "if self.thread: return"; otherwise a new Thread(target=self.run)
\* is started, whatever became of the one before
StartAgain ==
    /\ mainPc \in {"run", "stopped"}
    /\ t2pc = "idle"
    /\ nStarts < MaxStarts
    /\ nStarts' = nStarts + 1
    /\ IF fs_thread
       THEN UNCHANGED <<fs_thread, t2pc, t2idx, mainPc>>
       ELSE /\ fs_thread' = TRUE
            /\ t2pc' = "iter"
            /\ t2idx' = LISTEN_PORT
            /\ mainPc' = "restarted"
    /\ UNCHANGED <<portState, fs_server, fs_port, tpc, idx, boundPort,
                   shutdownReq, fileserver, startResult, dpc, cur, data,
                   download_url, log, nEvents, accepted, acceptTxs, t2bound,
                   besideRs>>

\* the for loop of run() in the second thread: self.port is the object's
Run2NextPort ==
    /\ t2pc = "iter"
    /\ IF t2idx \in Ports
       THEN /\ fs_port' = t2idx
            /\ t2idx' = t2idx + 1
            /\ t2pc' = "bind"
       ELSE /\ t2pc' = "failed_noport"
            /\ UNCHANGED <<fs_port, t2idx>>
    /\ UNCHANGED <<portState, fs_thread, fs_server, tpc, idx, boundPort,
                   shutdownReq, mainPc, fileserver, startResult, dpc, cur,
                   data, download_url, log, nEvents, accepted, acceptTxs,
                   t2bound, nStarts, besideRs>>

\* TCPServer((self.addr, self.port), self.handler) in the second thread: the
\* port the first thread still listens on is in use like any other
Run2Bind ==
    /\ t2pc = "bind"
    /\ CASE portState[fs_port] = "inuse" \/ fs_port = boundPort ->
              /\ t2pc' = "iter"
              /\ UNCHANGED t2bound
         [] portState[fs_port] = "free" ->
              /\ t2bound' = fs_port
              /\ t2pc' = "bound"
         [] OTHER ->
              /\ t2pc' = "failed_oserror"
              /\ UNCHANGED t2bound
    /\ UNCHANGED <<portState, fs_thread, fs_server, fs_port, tpc, idx,
                   boundPort, shutdownReq, mainPc, fileserver, startResult,
                   dpc, cur, data, download_url, log, nEvents, accepted,
                   acceptTxs, t2idx, nStarts, besideRs>>

\* self.server = httpd; httpd.serve_forever() in the second thread
Run2Serve ==
    /\ t2pc = "bound"
    /\ fs_server' = TRUE
    /\ t2pc' = "serving"
    /\ UNCHANGED <<portState, fs_thread, fs_port, tpc, idx, boundPort,
                   shutdownReq, mainPc, fileserver, startResult, dpc, cur,
                   data, download_url, log, nEvents, accepted, acceptTxs,
                   t2idx, t2bound, nStarts, besideRs>>

----------------------------------------------------------------------------
\* The scan stops at the first port that is not in use and never touches the
\* ports after it, so the environments are told apart by the number k of
\* occupied ports at the start of the range and by what bind() meets at the
\* port after them: a free port, or an error other than EADDRINUSE.
PortEnvironments ==
    { [p \in Ports |-> IF p < LISTEN_PORT + k THEN "inuse"
                       ELSE IF p = LISTEN_PORT + k THEN kind ELSE "free"] :
        k \in 0 .. (LISTEN_PORT_RANGE + 1), kind \in {"free", "denied"} }

InitSolver ==
    /\ portState \in PortEnvironments
    /\ fs_thread = FALSE
    /\ fs_server = FALSE
    /\ fs_port = 0
    /\ tpc = "idle"
    /\ idx = LISTEN_PORT
    /\ boundPort = 0
    /\ shutdownReq = FALSE
    /\ mainPc = "construct"
    /\ fileserver = FALSE
    /\ startResult = "none"
    /\ dpc = "idle"
    /\ cur = NoEvent
    /\ data = ""
    /\ download_url = 0
    /\ log = <<>>
    /\ nEvents = 0
    /\ accepted = {}
    /\ acceptTxs = [t \in Tasks |-> <<>>]

InitRegistry ==
    /\ file = [exists |-> FALSE, rows |-> <<>>]
    /\ rpc = "idle"
    /\ md = NoMetadata
    /\ is_empty = FALSE
    /\ recorded = {}
    /\ fetched = [done |-> FALSE, rows |-> <<>>]
    /\ fetchedAfter = {}
    /\ fetchedPrev = [done |-> FALSE, rows |-> <<>>]
    /\ fetchDirty = FALSE
    /\ fetchQuiet = FALSE
    /\ fetchedMissing = FALSE
    /\ fetchedErr = FALSE
    /\ tornTail = FALSE
    /\ sv_file = [exists |-> FALSE, rows |-> <<>>]
    /\ sv_md = NoMetadata
    /\ sv_raised = FALSE
    /\ cr_inSave = FALSE
    /\ nTorn = 0
    /\ nSaves = 0
    /\ run = 1

InitDissem ==
    /\ ds_pc = "idle"
    /\ ds_entry = "none"
    /\ ds_meta = NoMetadata
    /\ ds_snapshot = {}
    /\ ds_todo = {}
    /\ ds_created = {}
    /\ links = NoLinks
    /\ ds_txs = 0
    /\ ds_symlinks = 0
    /\ ds_wasRegistered = FALSE
    /\ ds_linkBefore = None
    /\ ds_fileBefore = [exists |-> FALSE, rows |-> <<>>]
    /\ ds_error = "none"
    /\ nDissems = 0

InitAnswer ==
    /\ an_pc = "idle"
    /\ an_data = NoPayload
    /\ an_msg = <<>>
    /\ an_result = NoResult
    /\ an_dlFailed = FALSE
    /\ an_urlFailed = FALSE
    /\ an_downloads = 0
    /\ urlFiles = NoFiles
    /\ jsonFiles = NoFiles
    /\ nAnswers = 0

\* self.event_listener = BasicEventListener(''); self.event_listener.start()
InitWatch ==
    /\ subs = NoSubs
    /\ w_pending = {}
    /\ w_pc = "poll"
    /\ w_event = None
    /\ w_loopAlive = TRUE
    /\ w_stopped = [t \in Tokens |-> FALSE]
    /\ w_callsAfterStop = 0
    /\ w_missed = [t \in Tokens |-> 0]
    /\ w_startError = FALSE
    /\ w_rewatched = {}
    /\ nWatchEvents = 0
    /\ nWatches = 0

\* the local account holds one token 0xAA, and the cache agrees
InitLedger ==
    /\ lg_pc = "idle"
    /\ lg_op = "send"
    /\ lg_token = "0xAA"
    /\ lg_stage = 1
    /\ lg_status = NoStatus
    /\ lg_failed = FALSE
    /\ lg_changed = FALSE
    /\ lg_txs = 0
    /\ lg_result = NoResult
    /\ ledgerBal = [t \in Tokens |-> IF t = "0xAA" THEN 1 ELSE 0]
    /\ cacheBal = [t \in Tokens |-> IF t = "0xAA" THEN 1 ELSE 0]
    /\ nCalls = 0

\* before line 125 of Player.__init__
InitConfig ==
    /\ cf_pc = "broker"
    /\ cf_raw = <<>>
    /\ inv_broker = Unset
    /\ inv_calls = <<>>
    /\ operator_address = Unset
    /\ plugin_given = <<>>
    /\ solver_given = Unset

InitDt ==
    /\ dt_pc = "idle"
    /\ dt_md = NoMetadata
    /\ dt_is_empty = FALSE
    /\ nDt = 0

\* Player.__init__: self.trusted_users = [], before fetch_trusted_users is
\* called; the account id is a checksummed address
InitTu ==
    /\ account_id = "0xAb12"
    /\ trusted_users = <<>>
    /\ tu_file = NoTuFile
    /\ tu_read = NoTuFile
    /\ tu_prev = <<>>
    /\ tu_outcome = "none"
    /\ tu_edited = FALSE
    /\ nTuFetches = 0
    /\ nTuEdits = 0

\* LocalHttpServer.__init__: no second thread
InitRs ==
    /\ t2pc = "idle"
    /\ t2idx = LISTEN_PORT
    /\ t2bound = 0
    /\ nStarts = 0

InitFg ==
    /\ ch_wanted = {}
    /\ fg_active = {}
    /\ nAccepts = 0

InitPlayer ==
    /\ InitDissem /\ InitAnswer /\ InitWatch /\ InitLedger /\ InitConfig
    /\ InitDt /\ InitFg /\ InitTu /\ InitRs

Init == InitSolver /\ InitRegistry /\ InitPlayer /\ mispFiles = UUIDs

SolverNext ==
    \/ RunNextPort \/ RunBind \/ RunSetServer \/ RunServe \/ RunServeExit
    \/ RunClose
    \/ Solver_init \/ DestroyBegin \/ StopCheckServer \/ StopShutdownDone
    \/ StopCheckThread \/ StopJoined \/ StopJoinTimeout \/ DestroyEnd
    \/ ChallengeEvent \/ ChallengeAccept \/ ChallengeCreateUrl
    \/ ChallengeDecode \/ ChallengeWebhook \/ ChallengeFinish

SolverSpec == Init /\ [][SolverNext]_vars

RegistryNext == SaveBegin \/ SaveOpen \/ SaveWrite \/ Fetch \/ Crash

\* the registry does not depend on the ports: one port environment is enough
RegistryInit == Init /\ \A p \in Ports : portState[p] = "free"

RegistrySpec == RegistryInit /\ [][RegistryNext]_vars

----------------------------------------------------------------------------
\* Properties of process_challenge, read off the log of the current handling

HandlingDone == dpc = "idle" /\ Len(log) > 0
AcceptSucceeded == Len(log) > 0 /\ log[1].op = "accept" /\ log[1].ok
FinishCalls == {i \in DOMAIN log : log[i].op = "finish" /\ log[i].task = cur.task}
StepsBefore(i) == {j \in DOMAIN log : j < i}
OpsOf(l) == [i \in DOMAIN l |-> l[i].op]
Rank(op) ==
    CASE op = "accept" -> 1 [] op = "url" -> 2 [] op = "decode" -> 3
      [] op = "webhook" -> 4 [] OTHER -> 5

\* C1: a handled event whose accept_task succeeded has finish_task invoked
\* exactly once for its task id, whichever later step raised; a handled event
\* whose accept_task was rejected has it invoked zero times.
C1_FinishExactlyOnce ==
    /\ Cardinality(FinishCalls) <= 1
    /\ HandlingDone =>
          Cardinality(FinishCalls) = (IF AcceptSucceeded THEN 1 ELSE 0)

\* C1 witness: an accepted task whose webhook raised has been finished once
C1_Witness ==
    /\ HandlingDone /\ AcceptSucceeded
    /\ \E i \in DOMAIN log : log[i].op = "webhook" /\ ~log[i].ok
    /\ Cardinality(FinishCalls) = 1

\* C2: for any sequence of events, duplicates included, no accept transaction
\* is submitted for a task id after one for that id was accepted (the handler
\* runs on the one dispatch thread, so none is submitted while one is in
\* flight either).
C2_NoSecondAccept ==
    \A t \in Tasks : \A i, j \in DOMAIN acceptTxs[t] :
        i < j => ~acceptTxs[t][i]

\* C2 witness: the event of an accepted task was delivered again and handled
\* without a second transaction
C2_Witness ==
    /\ HandlingDone /\ ~AcceptSucceeded
    /\ cur.task \in accepted
    /\ acceptTxs[cur.task] = <<TRUE>>

\* C3: the steps of one task occur in the order accept, create download URL,
\* webhook (with that URL and the token address), finish; the webhook is
\* never called before accept succeeded; when every step succeeded the task is
\* finished with empty data.
C3_StepOrder ==
    /\ \A i, j \in DOMAIN log : i < j => Rank(log[i].op) < Rank(log[j].op)
    /\ Len(log) > 0 => log[1].op = "accept"
    /\ \A i \in DOMAIN log : log[i].op = "webhook" =>
          /\ AcceptSucceeded
          /\ log[i].token = TokenOf(cur.task)
          /\ \E j \in StepsBefore(i) :
                log[j].op = "url" /\ log[j].ok /\ log[j].port = log[i].port
    /\ \A i \in DOMAIN log :
          (log[i].op = "finish" /\ \A j \in StepsBefore(i) : log[j].ok) =>
              /\ OpsOf(log) = <<"accept", "url", "webhook", "finish">>
              /\ log[i].data = ""

\* C3 witness: a handling in which every step succeeded
C3_Witness ==
    /\ HandlingDone
    /\ OpsOf(log) = <<"accept", "url", "webhook", "finish">>
    /\ \A i \in DOMAIN log : log[i].ok

\* C4: when download URL creation or webhook delivery raised after a
\* successful accept, the task is still finished and the data passed to
\* finish_task is a non-empty error string.
C4_FailureReportsError ==
    /\ \A i \in DOMAIN log :
          (/\ log[i].op = "finish"
           /\ \E j \in StepsBefore(i) :
                 log[j].op \in {"url", "webhook"} /\ ~log[j].ok)
          => log[i].data # ""
    /\ (HandlingDone /\ \E j \in DOMAIN log :
                           log[j].op \in {"url", "webhook"} /\ ~log[j].ok)
          => FinishCalls # {}

\* C5: when accept_task is rejected the handler aborts: no download URL is
\* created, the webhook is not called, no finish transaction is submitted.
C5_RejectedAborts ==
    (Len(log) > 0 /\ ~log[1].ok) =>
        /\ Len(log) = 1
        /\ dpc = "idle"
        /\ download_url = 0

\* C5 witness: the ledger declined the accept of a task and the handler is back
C5_Witness ==
    /\ HandlingDone /\ ~AcceptSucceeded
    /\ acceptTxs[cur.task] # <<>>
    /\ ~acceptTxs[cur.task][Len(acceptTxs[cur.task])]

\* C6: every download URL handed to the webhook carries a port on which the
\* file server is bound and serving at that moment, for every interleaving
\* with the background port scan.
C6_UrlPortServing ==
    \A i \in DOMAIN log : log[i].op = "webhook" => log[i].data = "serving"

----------------------------------------------------------------------------
\* Properties of the port scan and of stop

\* exactly the ports [LISTEN_PORT, LISTEN_PORT+k) are occupied and the next
\* one is free
ExactlyOccupied(k) ==
    /\ \A p \in Ports : p < LISTEN_PORT + k => portState[p] = "inuse"
    /\ portState[LISTEN_PORT + k] = "free"

AllInUse == \A p \in Ports : portState[p] = "inuse"

\* C7: the scan goes through the ports in order from LISTEN_PORT to
\* LISTEN_PORT+LISTEN_PORT_RANGE inclusive and binds the first one that is not
\* in use: with exactly [LISTEN_PORT, LISTEN_PORT+k) occupied, k <=
\* LISTEN_PORT_RANGE, it binds LISTEN_PORT+k and tries no port beyond it.
C7_FirstFreePort ==
    /\ Listening =>
          /\ portState[boundPort] = "free"
          /\ \A p \in Ports : p < boundPort => portState[p] = "inuse"
    /\ tpc \in {"bind", "bound"} => idx = fs_port + 1
    /\ \A k \in 0 .. LISTEN_PORT_RANGE : ExactlyOccupied(k) =>
          /\ idx <= LISTEN_PORT + k + 1
          /\ fs_port <= LISTEN_PORT + k
          /\ tpc \notin {"failed_noport", "failed_oserror"}
          /\ tpc \in {"bound", "serve_enter", "serving", "exited"} =>
                boundPort = LISTEN_PORT + k

\* C7 witness: every port but the last is occupied and the server serves on
\* the last one
C7_Witness ==
    /\ ExactlyOccupied(LISTEN_PORT_RANGE)
    /\ tpc = "serving"
    /\ boundPort = LISTEN_PORT + LISTEN_PORT_RANGE

\* C8: with every port of the range in use, start fails with a
\* no-port-available error that its caller observes, and the solver does not
\* go on running without a bound server.
C8_NoPortObserved ==
    (AllInUse /\ tpc = "failed_noport") =>
        /\ startResult = "error"
        /\ mainPc # "run"

\* C9: after stop has returned the server is not listening and will not start
\* listening later, for every interleaving of stop with the thread.
C9_StoppedNotListening ==
    mainPc \in {"stopped", "destroyed"} => (~Listening /\ ~ThreadAlive)

----------------------------------------------------------------------------
\* Properties of the registry

\* C10: once save_registered_token has recorded a uuid, every later
\* fetch_registered_token, in the same run and in later runs, returns a record
\* with that uuid.
C10_SavedIsFetched ==
    fetched.done => fetchedAfter \subseteq registered_uuid(fetched.rows)

----------------------------------------------------------------------------
\* Dissemination on the foreground thread, with the registry it writes

DissemNext ==
    \/ DissemMispBegin \/ DissemMispNext \/ DissemNewToken \/ DissemToken
    \/ DissemCreateToken \/ DissemContent \/ DissemRegister \/ DissemSave
    \/ SaveOpen \/ SaveWrite \/ DissemSaved \/ DissemConsign

\* the MISP data directory holds any of the files
DissemInit ==
    /\ InitSolver /\ InitRegistry /\ InitPlayer
    /\ \A p \in Ports : portState[p] = "free"
    /\ mispFiles \in SUBSET UUIDs

DissemSpec == DissemInit /\ [][DissemNext]_vars

\* C11: disseminating a uuid that is already in the registry submits no ledger
\* transaction and attempts no symlink, through every entry point.
C11_RegisteredIsNoOp ==
    ds_wasRegistered => (ds_txs = 0 /\ ds_symlinks = 0)

\* C12: after any sequence of disseminations the registry holds at most one
\* record per uuid.
C12_OneRecordPerUuid ==
    LET rows == fetch_registered_token(file) IN
    \A i, j \in DOMAIN rows :
        i # j => Get(rows[i], "uuid") # Get(rows[j], "uuid")

\* C19: create_asset_content for a token address whose serving link exists
\* raises no error and leaves the link and its target as they were; the
\* dissemination goes on to the catalog registration.
C19_ExistingLinkKept ==
    (ds_symlinks > 0 /\ ds_linkBefore # None) =>
        /\ links[ds_meta.tokenAddress] = ds_linkBefore
        /\ ds_error # "symlink"
        /\ ds_linkBefore \in mispFiles

\* C19 witness: the link of the token pointed to another uuid's file and the
\* call has moved on to register_catalog
C19_Witness ==
    /\ ds_pc = "register"
    /\ ds_linkBefore # None
    /\ ds_linkBefore # ds_meta.uuid
    /\ links[ds_meta.tokenAddress] = ds_linkBefore

----------------------------------------------------------------------------
\* Challenge answers received by the seeker

AnswerNext == AnswerReceive \/ AnswerDownload \/ AnswerStore \/ AnswerSaveUrl

AnswerSpec == RegistryInit /\ [][AnswerNext]_vars

\* the last call got a well-formed answer and its download failed
DownloadFailedCall == an_result.done /\ an_dlFailed

\* C13 as stated: after a call whose download failed the file <token>.url
\* holds exactly the download_url and the call returned (True, message).
C13_UrlFileExists ==
    DownloadFailedCall =>
        /\ an_result.ok /\ ~an_result.raised
        /\ urlFiles[an_data.token_address] = an_data.download_url

\* C13 amended: after a call whose download failed the call returned
\* (True, message) without raising, and the file <token>.url holds exactly the
\* download_url unless writing it failed, which the message then reports.
C13_UrlFileOrReport ==
    DownloadFailedCall =>
        /\ an_result.ok /\ ~an_result.raised
        /\ IF an_urlFailed
           THEN an_msg[Len(an_msg)] = "url save failed"
           ELSE /\ urlFiles[an_data.token_address] = an_data.download_url
                /\ an_msg[Len(an_msg)] = "url saved"

\* C13 witness: a failed download left the url in a file that did not hold it
C13_Witness ==
    /\ DownloadFailedCall /\ ~an_urlFailed
    /\ urlFiles[an_data.token_address] = an_data.download_url
    /\ \E t \in Tokens : t # an_data.token_address /\ urlFiles[t] = None

----------------------------------------------------------------------------
\* Token watches: the foreground registers them, the dispatch thread runs
\* the callbacks

WatchNext ==
    \/ watch_token_start \/ DispatchPoll \/ DispatchMatch
    \/ watch_token_stop \/ CallbackKeep \/ CallbackReturn

WatchSpec == RegistryInit /\ [][WatchNext]_vars

\* C14: after the callback of 'Sent:<token>' has called watch_token_stop for
\* its own token during its dispatch, the dispatch loop keeps running and the
\* callback is never invoked for a later event of that token.
C14_StoppedNeverFiresAgain ==
    /\ w_loopAlive
    /\ w_callsAfterStop = 0
    /\ \A t \in Tokens :
          (w_stopped[t] /\ w_pc = "poll") => subs[SentKey(t)] = None

\* C14 witness: a later event of a token whose callback stopped its watch
\* was dispatched and found no subscription, the loop polling on
C14_Witness ==
    \E t \in Tokens :
        /\ w_stopped[t] /\ w_missed[t] = 1
        /\ w_loopAlive /\ w_pc = "poll"

----------------------------------------------------------------------------
\* Ledger calls made one at a time from the foreground

LedgerNext ==
    \/ LedgerCall \/ LedgerTransact \/ TokenCheckReceipt
    \/ Erc1820CheckReceipt \/ ChallengeCheck \/ CreateTokenCheck
    \/ update_balanceof_myself

LedgerSpec == RegistryInit /\ [][LedgerNext]_vars

\* the six calls whose receipt the code checks itself
CheckedOps == TokenOps \cup {"send_token", "burn_token", "deploy_erc1820"}

\* C15: a call of send, burn, authorizeOperator, revokeOperator or
\* deploy_erc1820 in which a receipt had a status other than success ends in
\* a raised error and never returns normally.
C15_FailedReceiptRaises ==
    (lg_op \in CheckedOps /\ lg_result.done /\ lg_failed) =>
        (lg_result.raised /\ ~lg_result.ok)

\* C15 witness: the second transaction of deploy_erc1820 failed after the
\* first succeeded, and the call raised
C15_Witness ==
    /\ lg_op = "deploy_erc1820" /\ lg_stage = 2
    /\ lg_result.done /\ lg_failed /\ lg_result.raised

\* C16: a call of a state-changing CTIToken operation submits exactly one
\* transaction; a failure is raised and the transaction is not submitted again.
C16_OneTransactionPerCall ==
    lg_op \in TokenOps \cup {"send_token", "burn_token"} =>
        /\ lg_txs <= 1
        /\ lg_result.done => (lg_txs = 1 /\ (lg_failed <=> lg_result.raised))

\* C16 witness: a CTIToken operation failed, was raised, and had submitted
\* one transaction
C16_Witness ==
    /\ lg_op \in TokenOps
    /\ lg_result.done /\ lg_result.raised /\ lg_failed /\ lg_txs = 1

\* C17: when a Player operation (send_token, burn_token, request_challenge,
\* the token creation of a dissemination) that changed the local account's
\* balance of a token has returned successfully, the cached balance of the
\* token equals the ledger's.
C17_CacheReconciled ==
    (/\ lg_op \in PlayerOps
     /\ lg_pc = "idle" /\ lg_result.done /\ lg_result.ok /\ lg_changed) =>
        cacheBal[lg_token] = ledgerBal[lg_token]

----------------------------------------------------------------------------
\* The configuration steps of the constructor

ConfigNext ==
    \/ ConfigBroker \/ ConfigCatalog \/ ConfigReserves \/ ConfigOperator
    \/ ConfigSolver

ConfigSpec == RegistryInit /\ [][ConfigNext]_vars

\* C18: what Inventory, the solver and the plugin manager receive from the
\* configuration is a checksum-valid address or nothing: an absent scalar is
\* None, an absent list entry is left out of the list, and no list holds a
\* placeholder for an invalid entry.
C18_OnlyValidAddresses ==
    /\ inv_broker \in ValidAddrs \cup {None, Unset}
    /\ solver_given \in ValidAddrs \cup {None, Unset}
    /\ \A i \in DOMAIN plugin_given : plugin_given[i] \in ValidAddrs \cup {None}
    /\ \A i \in DOMAIN inv_calls :
          \A j \in DOMAIN inv_calls[i].addresses :
              inv_calls[i].addresses[j] \in ValidAddrs

----------------------------------------------------------------------------
----------------------------------------------------------------------------
\* The registry with writes that stop part-way

FaultNext == RegistryNext \/ SaveWriteFails \/ CrashInWrite

FaultSpec == RegistryInit /\ [][FaultNext]_vars

\* C21: after a crash during save_registered_token, fetch_registered_token
\* returns the records of before the save, or those and the complete new
\* record; never a part of the record as a record.
C21_SaveAllOrNothing ==
    cr_inSave =>
        LET before == fetch_registered_token(sv_file)
            after == fetch_registered_token(
                        [exists |-> TRUE,
                         rows |-> WrittenRows(sv_file.rows, FALSE,
                                              ~sv_file.exists, sv_md)])
            now == fetch_registered_token(file)
        IN  now = before \/ now = after

----------------------------------------------------------------------------
\* A foreground disseminate_token_from_mispdata and one on the dispatch
\* thread, interleaved step by step

ConcurNext ==
    \/ DissemMispBegin \/ DissemMispNext \/ DissemCreateToken
    \/ DissemContent \/ DissemRegister \/ DissemSave \/ SaveOpen \/ SaveWrite
    \/ DissemSaved \/ DissemConsign
    \/ DtLookup \/ DtSaveBegin \/ DtSaveOpen \/ DtSaveWrite

ConcurSpec == DissemInit /\ [][ConcurNext]_vars

\* the lines of the file that are the header
HeaderLines == {i \in DOMAIN file.rows : file.rows[i] = fieldnames}

\* C22: with a dissemination on the dispatch thread and one in the
\* foreground, the registry file has its header as first line and nowhere
\* else, holds every record that was saved, and holds no uuid twice.
C22_RegistryWellFormed ==
    /\ file.rows # <<>> => HeaderLines = {1}
    /\ \A i, j \in DOMAIN file.rows :
          (i # j /\ i > 1 /\ j > 1) => file.rows[i][1] # file.rows[j][1]
    /\ recorded \subseteq {file.rows[i][1] : i \in DOMAIN file.rows}
    /\ Len(file.rows) <= Cardinality(recorded) + 1

----------------------------------------------------------------------------
\* Challenges: the file server thread, the handler on the dispatch thread
\* and accept_challenges in the foreground

ChallengeNext ==
    \/ RunNextPort \/ RunBind \/ RunSetServer \/ RunServe \/ Solver_init
    \/ ChallengeEvent \/ ChallengeAccept \/ ChallengeCreateUrl
    \/ ChallengeDecode \/ ChallengeWebhook \/ ChallengeFinish
    \/ accept_challenges

ChallengeSpec == RegistryInit /\ [][ChallengeNext]_vars

\* the task the dispatch thread has accepted and not finished
DispatchActive ==
    IF dpc \in {"url", "decode", "webhook", "finish"} THEN {cur.task} ELSE {}

\* the tasks between their accept and their finish
InFlight == DispatchActive \cup fg_active

\* C23: at most one task is between its accept and its finish, and so at
\* most one per token address, with challenges arriving on the dispatch
\* thread and accept_challenges called from the foreground.
C23_OneChallengeInFlight ==
    /\ Cardinality(InFlight) <= 1
    /\ \A tok \in Tokens :
          Cardinality({t \in InFlight : TokenOf(t) = tok}) <= 1

\* C23 witness: a second challenge is in flight after the first was
\* finished, and accept_challenges was called meanwhile
C23_Witness ==
    /\ InFlight # {}
    /\ nEvents = 2 /\ nAccepts > 0
    /\ ch_wanted = Tokens

----------------------------------------------------------------------------
\* Player.destroy: solver.destroy() stops the file server while the event
\* listener, destroyed last, still runs its callback

\* stop() has shut the server down: shutdown() has returned, the thread
\* has left serve_forever
ServerStopped ==
    /\ tpc \in {"exited", "done"}
    /\ mainPc \in {"join_check", "join", "stopped", "destroyed"}

\* C24: during and after Player.destroy no challenge is processed against a
\* file server that has already been stopped: once the server is shut down
\* no handler is between its accept and the sending of its download URL.
C24_NoProcessingAfterStop ==
    ServerStopped => dpc \notin {"url", "decode", "webhook"}

----------------------------------------------------------------------------
\* The registry as a sequence of records

IsPrefix(a, b) == Len(a) <= Len(b) /\ SubSeq(b, 1, Len(a)) = a

\* C25: the registry is append-only: every step leaves the records it held
\* as they were, in their order, and adds records only after them.
C25_AppendOnly ==
    [][IsPrefix(fetch_registered_token(file), fetch_registered_token(file'))]_vars

\* C26: a registry file that holds anything starts with the header row, and
\* holds the header row only there, so that every record written is read
\* back as a record.
C26_HeaderFirstAndOnce ==
    file.rows # <<>> =>
        /\ file.rows[1] = fieldnames
        /\ \A i \in DOMAIN file.rows : i > 1 => file.rows[i] # fieldnames
        /\ Len(fetch_registered_token(file)) = Len(file.rows) - 1

\* the registry with reads that fail
ReadErrorNext == RegistryNext \/ FetchReadError

ReadErrorSpec == RegistryInit /\ [][ReadErrorNext]_vars

\* C27: a fetch_registered_token that met a read error other than a
\* missing file returns the empty result, not the records read before the
\* error.
C27_ReadErrorGivesEmpty ==
    (fetched.done /\ fetchedErr) => fetched.rows = <<>>

----------------------------------------------------------------------------
\* disseminate_token when the catalog registration fails

\* the dissemination has ended with register_catalog raising
RegisterFailed == ds_pc = "idle" /\ ds_error = "register_catalog"

\* C28 as stated: when the catalog registration fails the registry holds the
\* record of the uuid and the serving symlink exists.
C28_RecordAndLinkOnFailure ==
    RegisterFailed =>
        /\ ds_meta.uuid \in registered_uuid(fetch_registered_token(file))
        /\ links[ds_meta.tokenAddress] # None

\* C28 amended: when the catalog registration fails the serving symlink
\* exists and the registry file is as it was when the dissemination was
\* entered: save_registered_token has not been reached.
C28_LinkOnlyOnFailure ==
    RegisterFailed =>
        /\ links[ds_meta.tokenAddress] # None
        /\ file = ds_fileBefore
        /\ rpc = "idle"

\* C28 witness: the registration of a second uuid failed; the registry holds
\* the first record only and the link of the second token exists
C28_Witness ==
    /\ RegisterFailed
    /\ registered_uuid(fetch_registered_token(file)) # {}
    /\ ds_meta.uuid \notin registered_uuid(fetch_registered_token(file))
    /\ links[ds_meta.tokenAddress] = ds_meta.uuid

----------------------------------------------------------------------------
\* Token watches started more than once

Watched == {t \in Tokens : subs[SentKey(t)] # None}

\* C29: each token has at most one 'Sent:' subscription: no step replaces
\* the callback of a watched token; a watch_token_start that fails was for a
\* watched token and leaves every subscription as it was; one that succeeds
\* adds the subscription of a token that was not watched, a token whose
\* watch was stopped included.
C29_OneWatchPerToken ==
    [][/\ \A t \in Watched : subs'[SentKey(t)] \in {subs[SentKey(t)], None}
       /\ nWatches' # nWatches =>
             IF w_startError'
             THEN subs' = subs /\ Watched # {}
             ELSE \E t \in Tokens \ Watched :
                     /\ subs'[SentKey(t)] # None
                     /\ \A k \in Keys \ {SentKey(t)} : subs'[k] = subs[k]]_vars

\* C29 witness: a token whose watch was stopped is watched again, and a
\* further watch_token_start for it was refused
C29_Witness ==
    \E t \in w_rewatched :
        /\ subs[SentKey(t)] # None
        /\ w_startError

----------------------------------------------------------------------------
\* The trusted users

TrustNext == EditTrustedUsers \/ fetch_trusted_users

TrustSpec == RegistryInit /\ [][TrustNext]_vars

\* the checksummed addresses of the rows of a file
AddressesIn(f) ==
    {toChecksumAddress(RowId(f, i)) : i \in DOMAIN f.rows} \ {None}

TrustedSet == {trusted_users[i] : i \in DOMAIN trusted_users}

\* C30: every entry of trusted_users is a checksummed address and none is
\* the own account id; after a fetch that read the file the entries are the
\* addresses of its rows, the own one left out; a missing file or a read
\* error leaves the list as it was; the file changes by hand only.
C30_TrustedUsersFromFile ==
    /\ TrustedSet \subseteq UserAddrs \ {account_id}
    /\ tu_outcome = "ok" =>
          /\ TrustedSet = AddressesIn(tu_read) \ {account_id}
          /\ Len(trusted_users) <= Len(tu_read.rows)
    /\ tu_outcome \in {"missing", "error"} => trusted_users = tu_prev
    /\ ~tu_edited => tu_file = tu_read

\* C30 witness: a file with the own address and another one in lower case
\* was read, and the next fetch met a read error
C30_Witness ==
    /\ tu_outcome = "error"
    /\ trusted_users = <<"0xCd34">>
    /\ tu_prev = trusted_users
    /\ \E i, j \in DOMAIN tu_read.rows :
          tu_read.rows[i] = "0xcd34" /\ tu_read.rows[j] = "0xAb12"

----------------------------------------------------------------------------
\* start and stop of one LocalHttpServer in any order

RestartNext ==
    \/ RunNextPort \/ RunBind \/ RunSetServer \/ RunServe \/ RunServeExit
    \/ RunClose
    \/ Solver_init \/ DestroyBegin \/ StopCheckServer \/ StopShutdownDone
    \/ StopCheckThread \/ StopJoined \/ StopJoinTimeout \/ DestroyEnd
    \/ StartAgain \/ Run2NextPort \/ Run2Bind \/ Run2Serve

RestartSpec == Init /\ [][RestartNext]_vars

\* C31: one LocalHttpServer has at most one live server thread and at most
\* one bound port, for every sequence of start and stop calls, a start after
\* a stop whose join timed out included.
C31_OneServerThread ==
    /\ ~(ThreadAlive /\ Thread2Alive)
    /\ ~(boundPort # 0 /\ t2bound # 0)

----------------------------------------------------------------------------
\* Challenge answers that cannot be taken apart

\* a payload in which download_url or token_address is missing or empty
MissingOrEmpty(d) ==
    \E key \in {"download_url", "token_address"} : d[key] \in {"", Missing}

\* C32: receive_challenge_answer given a payload in which download_url or
\* token_address is missing or empty returns (False, message) at once: no
\* download is attempted and the .json and .url files stay as they were.
C32_UnparsableHasNoEffect ==
    [][MissingOrEmpty(an_data') =>
          /\ an_pc' = "idle"
          /\ an_result' = Returned(FALSE)
          /\ an_msg' = <<"unparsable">>
          /\ an_downloads' = 0
          /\ urlFiles' = urlFiles
          /\ jsonFiles' = jsonFiles]_vars

\* C32 witness: after a call that stored its download, a call with a
\* download_url and an empty token_address has returned (False, message)
C32_Witness ==
    /\ an_result = Returned(FALSE)
    /\ an_data.download_url \in URLs /\ an_data.token_address = ""
    /\ an_downloads = 0
    /\ \E t \in Tokens : jsonFiles[t] = "rdata"

====
